---- MODULE Spec2Model ----
(***************************************************************************)
(* The name normalisation and classification pipeline of the name/address  *)
(* validator: organization detection, name tokenizing, record              *)
(* classification and the batch coordinators, as implemented by the        *)
(* service (validation_service.py), the REST API (api/main.py) and the     *)
(* bulk CSV standardizer (name_format_standardizer.py).                    *)
(*                                                                         *)
(* Representation.  A Python str is a sequence of one-character strings,   *)
(* so that strip, split, lower, rstrip('.') and the substring test are     *)
(* computed character by character.  A float score is an integer number of *)
(* tenths (9 stands for 0.9).  A Python dict is a function whose domain is *)
(* the set of keys present.  String literals that the code only copies     *)
(* (status words, exception messages) stay TLA+ strings.                   *)
(***************************************************************************)
EXTENDS Integers, Sequences, FiniteSets, TLC

VARIABLES
  name_validator,     \* ValidationService.name_validator: "available" or "none"
  dictionary_loader,  \* name_standardizer and its dictionary_loader
  op,                 \* the operation that was called last
  arg,                \* its argument
  ret,                \* what it returned
  processing_jobs,    \* api/main.py processing_jobs: job_id -> JobStatus
  background_tasks,   \* the background task of each job and where it stands
  dictionary_store,   \* a NameDictionaryLoader: loaded, first_names, last_names
  app_logger          \* an AppLogger: logs, performance_metrics, max_logs, enabled

vars == <<name_validator, dictionary_loader, op, arg, ret, processing_jobs,
          background_tasks, dictionary_store, app_logger>>

----------------------------------------------------------------------------
(* Python string primitives *)

UpperCase == <<"A","B","C","D","E","F","G","H","I","J","K","L","M","N","O","P","Q","R","S","T","U","V","W","X","Y","Z">>
LowerCase == <<"a","b","c","d","e","f","g","h","i","j","k","l","m","n","o","p","q","r","s","t","u","v","w","x","y","z">>

Whitespace == {" "}

lower_char(c) ==
  IF \E i \in 1..Len(UpperCase) : UpperCase[i] = c
  THEN LowerCase[CHOOSE i \in 1..Len(UpperCase) : UpperCase[i] = c]
  ELSE c

upper_char(c) ==
  IF \E i \in 1..Len(LowerCase) : LowerCase[i] = c
  THEN UpperCase[CHOOSE i \in 1..Len(LowerCase) : LowerCase[i] = c]
  ELSE c

lower(s) == [i \in 1..Len(s) |-> lower_char(s[i])]

\* an upper() that leaves the text as it is
upper_as_is(s) == s

upper(s) == [i \in 1..Len(s) |-> upper_char(s[i])]

RECURSIVE lstrip(_)
lstrip(s) ==
  IF s # <<>> /\ Head(s) \in Whitespace THEN lstrip(Tail(s)) ELSE s

RECURSIVE rstrip(_)
rstrip(s) ==
  IF s # <<>> /\ s[Len(s)] \in Whitespace
  THEN rstrip(SubSeq(s, 1, Len(s) - 1))
  ELSE s

strip(s) == rstrip(lstrip(s))

RECURSIVE rstrip_dot(_)
rstrip_dot(s) ==
  IF s # <<>> /\ s[Len(s)] = "."
  THEN rstrip_dot(SubSeq(s, 1, Len(s) - 1))
  ELSE s

RECURSIVE split_acc(_, _, _)
split_acc(s, cur, out) ==
  IF s = <<>>
  THEN IF cur = <<>> THEN out ELSE Append(out, cur)
  ELSE IF Head(s) \in Whitespace
       THEN split_acc(Tail(s), <<>>, IF cur = <<>> THEN out ELSE Append(out, cur))
       ELSE split_acc(Tail(s), Append(cur, Head(s)), out)

split(s) == split_acc(s, <<>>, <<>>)

RECURSIVE join(_, _)
join(sep, parts) ==
  IF parts = <<>> THEN <<>>
  ELSE IF Len(parts) = 1 THEN parts[1]
  ELSE parts[1] \o sep \o join(sep, Tail(parts))

contains(s, sub) ==
  \E i \in 0..(Len(s) - Len(sub)) : SubSeq(s, i + 1, i + Len(sub)) = sub

endswith(s, suffix) ==
  /\ Len(suffix) <= Len(s)
  /\ SubSeq(s, Len(s) - Len(suffix) + 1, Len(s)) = suffix

InList(x, list) == \E i \in 1..Len(list) : list[i] = x

Get(d, k, default) == IF k \in DOMAIN d THEN d[k] ELSE default

EmptyDict == [k \in {} |-> <<>>]

----------------------------------------------------------------------------
(* Name tokenizers *)

titles ==
  << <<"m","r">>, <<"m","r","s">>, <<"m","s">>, <<"m","i","s","s">>, <<"d","r">>,
     <<"p","r","o","f">>, <<"r","e","v">>, <<"j","u","d","g","e">>,
     <<"s","e","n","a","t","o","r">>, <<"c","a","p","t","a","i","n">> >>

suffixes ==
  << <<"j","r">>, <<"s","r">>, <<"i","i","i">>, <<"i","v">>, <<"m","d">>,
     <<"p","h","d">>, <<"c","p","a">>, <<"e","s","q">> >>

\* a position rule that takes the second token as the last name
by_position_second_is_last(words) ==
  IF Len(words) = 0
  THEN [first_name |-> <<>>, last_name |-> <<>>, middle_name |-> <<>>]
  ELSE IF Len(words) = 1
  THEN [first_name |-> words[1], last_name |-> <<>>, middle_name |-> <<>>]
  ELSE [first_name |-> words[1], last_name |-> words[2],
        middle_name |-> join(<<" ">>, SubSeq(words, 3, Len(words)))]

\* the position rule shared by the tokenizers: first token, last token, and
\* everything between joined by single spaces
by_position(words) ==
  IF Len(words) = 0
  THEN [first_name |-> <<>>, last_name |-> <<>>, middle_name |-> <<>>]
  ELSE IF Len(words) = 1
  THEN [first_name |-> words[1], last_name |-> <<>>, middle_name |-> <<>>]
  ELSE IF Len(words) = 2
  THEN [first_name |-> words[1], last_name |-> words[2], middle_name |-> <<>>]
  ELSE [first_name |-> words[1], last_name |-> words[Len(words)],
        middle_name |-> join(<<" ">>, SubSeq(words, 2, Len(words) - 1))]

is_title_or_suffix(part) ==
  LET part_lower == rstrip_dot(lower(part))
  IN  InList(part_lower, titles) \/ InList(part_lower, suffixes)

\* ValidationService._parse_individual_name_api
_parse_individual_name_api(full_name) ==
  IF full_name = <<>> \/ strip(full_name) = <<>>
  THEN [first_name |-> <<>>, last_name |-> <<>>, middle_name |-> <<>>]
  ELSE LET parts == split(strip(full_name))
           clean_parts == SelectSeq(parts, LAMBDA part : ~is_title_or_suffix(part))
       IN  by_position(clean_parts)

\* pydantic ParsedComponents(...).dict(): always the four keys
ParsedComponents(first, last, middle, organization) ==
  [first_name |-> first, last_name |-> last, middle_name |-> middle,
   organization_name |-> organization]

\* api/main.py parse_individual_name
parse_individual_name(full_name) ==
  IF full_name = <<>> \/ strip(full_name) = <<>>
  THEN ParsedComponents(<<>>, <<>>, <<>>, <<>>)
  ELSE LET parts == split(strip(full_name))
           p == by_position(parts)
       IN  ParsedComponents(p.first_name, p.last_name, p.middle_name, <<>>)

nan == <<"n","a","n">>
None == <<"N","o","n","e">>

\* NameFormatStandardizer.parse_name_simple
parse_name_simple(full_name) ==
  IF full_name = <<>> \/ strip(full_name) \in {<<>>, nan, None}
  THEN [first_name |-> <<>>, last_name |-> <<>>, middle_name |-> <<>>]
  ELSE by_position(split(strip(full_name)))

----------------------------------------------------------------------------
(* Values of a JSON payload or a CSV cell.  A field of a record is a str,  *)
(* is missing, is null (None) or is a non-zero number.                     *)

Str(s) == [t |-> "str", v |-> s]
Absent == [t |-> "absent", v |-> <<>>]
NoneValue == [t |-> "none", v |-> <<>>]
IntValue == [t |-> "int", v |-> <<>>]

\* a payload element that is not a JSON object (a string, a number, null, an
\* array), type being the name of its Python type
NotAnObject(type) ==
  [object |-> FALSE, type |-> type, uniqueid |-> Absent, name |-> Absent,
   gender |-> Absent, party_type |-> Absent, parseInd |-> Absent]

\* the error of a batch whose element has no get: str(e) of the
\* AttributeError, which names the type of the element, in the parts of the
\* text
no_attribute_get(record) ==
  <<"API validation failed: '", record.type, "' object has no attribute 'get'">>

Object(uniqueid, name, gender, party_type, parseInd) ==
  [object |-> TRUE, uniqueid |-> uniqueid, name |-> name, gender |-> gender,
   party_type |-> party_type, parseInd |-> parseInd]

\* Python truth value of record.get(key)
Truthy(f) == (f.t = "str" /\ f.v # <<>>) \/ f.t = "int"

\* record.get(key, '')
get_or_empty(f) == IF f.t = "absent" THEN Str(<<>>) ELSE f

\* the AttributeError of value.strip() on a value that is not a str
NoStrip(f) ==
  IF f.t = "none" THEN "'NoneType' object has no attribute 'strip'"
  ELSE "'int' object has no attribute 'strip'"

\* a raised exception, carrying str(e)
Raise(message) == [exc |-> message]

Raised(r) == "exc" \in DOMAIN r

DictPut(d, k, v) == [x \in (DOMAIN d) \cup {k} |-> IF x = k THEN v ELSE d[x]]

----------------------------------------------------------------------------
(* Organization classifier *)

org_indicators_service ==
  << <<"l","l","c">>, <<"i","n","c">>, <<"c","o","r","p">>, <<"c","o","m","p","a","n","y">>, <<"l","t","d">>,
     <<"c","o",".">>, <<"c","o","r","p","o","r","a","t","i","o","n">>,
     <<"h","o","s","p","i","t","a","l">>, <<"m","e","d","i","c","a","l">>, <<"c","l","i","n","i","c">>,
     <<"c","e","n","t","e","r">>, <<"s","e","r","v","i","c","e","s">>, <<"s","o","l","u","t","i","o","n","s">>,
     <<"g","r","o","u","p">>, <<"p","a","r","t","n","e","r","s">>, <<"a","s","s","o","c","i","a","t","e","s">>,
     <<"f","i","r","m">>, <<"o","f","f","i","c","e">>, <<"b","a","n","k">>,
     <<"t","r","u","s","t">>, <<"f","o","u","n","d","a","t","i","o","n">>, <<"i","n","s","t","i","t","u","t","e">>,
     <<"u","n","i","v","e","r","s","i","t","y">>, <<"c","o","l","l","e","g","e">>,
     <<"s","c","h","o","o","l">>, <<"c","h","u","r","c","h">>, <<"m","i","n","i","s","t","r","y">>,
     <<"d","e","p","a","r","t","m","e","n","t">>, <<"a","g","e","n","c","y">> >>

org_indicators_api ==
  << <<"l","l","c">>, <<"i","n","c">>, <<"c","o","r","p">>, <<"c","o","m","p","a","n","y">>, <<"l","t","d">>,
     <<"c","o",".">>, <<"c","o","r","p","o","r","a","t","i","o","n">>,
     <<"h","o","s","p","i","t","a","l">>, <<"m","e","d","i","c","a","l">>, <<"c","l","i","n","i","c">>,
     <<"c","e","n","t","e","r">>, <<"s","e","r","v","i","c","e","s">>, <<"s","o","l","u","t","i","o","n","s">>,
     <<"g","r","o","u","p">>, <<"p","a","r","t","n","e","r","s">>, <<"a","s","s","o","c","i","a","t","e","s">>,
     <<"f","i","r","m">>, <<"o","f","f","i","c","e">>, <<"b","a","n","k">>,
     <<"t","r","u","s","t">>, <<"f","o","u","n","d","a","t","i","o","n">>, <<"i","n","s","t","i","t","u","t","e">>,
     <<"u","n","i","v","e","r","s","i","t","y">>, <<"c","o","l","l","e","g","e">> >>

org_words ==
  << <<"l","l","c">>, <<"i","n","c">>, <<"c","o","r","p">>, <<"c","o","m","p","a","n","y">>, <<"t","r","u","s","t">>,
     <<"b","a","n","k">>, <<"h","o","s","p","i","t","a","l">>, <<"c","l","i","n","i","c">>,
     <<"p","e","d","i","a","t","r","i","c","s">> >>

any_indicator_in(indicators, name_lower) ==
  \E i \in 1..Len(indicators) : contains(name_lower, indicators[i])

\* a detection that looks for keywords before it looks at the hint
_detect_organization_api_keyword_first(name, party_type_hint) ==
  IF any_indicator_in(org_indicators_service, lower(name)) THEN TRUE
  ELSE upper(party_type_hint) = <<"O">>

\* ValidationService._detect_organization_api
_detect_organization_api(name, party_type_hint) ==
  IF upper(party_type_hint) = <<"O">> THEN TRUE
  ELSE IF upper(party_type_hint) = <<"I">> THEN FALSE
  ELSE any_indicator_in(org_indicators_service, lower(name))

\* api/main.py detect_organization
detect_organization(name, party_type_hint) ==
  IF upper(party_type_hint) = <<"O">> THEN TRUE
  ELSE IF upper(party_type_hint) = <<"I">> THEN FALSE
  ELSE any_indicator_in(org_indicators_api, lower(name))

\* NameFormatStandardizer.is_organization_simple
is_organization_simple(name) ==
  IF name = <<>> THEN FALSE
  ELSE any_indicator_in(org_words, lower(name))

----------------------------------------------------------------------------
(* Name-validity check and gender prediction *)

\* NameDictionaryLoader.__init__
NewLoader == [loaded |-> FALSE, first_names |-> {}, last_names |-> {}]

\* the characters of the pattern ^[a-z\-']+$
NameChars == {LowerCase[i] : i \in 1..Len(LowerCase)} \cup {"-", "'"}

\* NameDictionaryLoader._is_valid_name
_is_valid_name(name) ==
  /\ name # <<>>
  /\ Len(name) > 1
  /\ name # nan
  /\ \A i \in 1..Len(name) : name[i] \in NameChars

\* the names one dictionary file contributes: its first column, stripped and
\* lower-cased, the valid ones only; a file that cannot be read gives none
valid_names(file) ==
  IF ~file.readable THEN {}
  ELSE { n \in { lower(strip(file.rows[i])) : i \in 1..Len(file.rows) } :
           _is_valid_name(n) }

\* the names of the files of a directory whose name satisfies the test
names_of(directory, kinds) ==
  UNION { valid_names(directory.files[f]) : f \in (DOMAIN directory.files) \cap kinds }

\* NameDictionaryLoader.__init__ followed by load_dictionaries: a file whose
\* name contains 'first' feeds first_names, else one whose name contains
\* 'last' feeds last_names, any other feeds both
load_dictionaries(directory) ==
  IF ~directory.exists \/ DOMAIN directory.files = {}
  THEN [loaded |-> FALSE, first_names |-> {}, last_names |-> {}]
  ELSE LET first_names == names_of(directory, {"first_names.csv", "names.csv"})
           last_names == names_of(directory, {"last_names.csv", "names.csv"})
       IN  [loaded |-> first_names # {} \/ last_names # {},
            first_names |-> first_names, last_names |-> last_names]

\* a membership test that rejects whatever an unloaded store does not hold
is_valid_first_name_strict(loader, name) ==
  lower(strip(name)) \in loader.first_names

\* NameDictionaryLoader.is_valid_first_name
is_valid_first_name(loader, name) ==
  IF ~loader.loaded THEN TRUE
  ELSE lower(strip(name)) \in loader.first_names

\* NameDictionaryLoader.is_valid_last_name
is_valid_last_name(loader, name) ==
  IF ~loader.loaded THEN TRUE
  ELSE lower(strip(name)) \in loader.last_names

\* NameDictionaryLoader.load_dictionaries on a store that may have been
\* loaded before: the call and what it returns.  A missing path or a
\* directory without CSV files returns False and touches nothing; else the
\* names of the files are added to the sets and loaded is recomputed
loader_load_dictionaries(loader, directory) ==
  IF ~directory.exists \/ DOMAIN directory.files = {}
  THEN [loader |-> loader, returned |-> FALSE]
  ELSE LET first_names ==
             loader.first_names \cup names_of(directory, {"first_names.csv", "names.csv"})
           last_names ==
             loader.last_names \cup names_of(directory, {"last_names.csv", "names.csv"})
           loaded == first_names # {} \/ last_names # {}
       IN  [loader |-> [loaded |-> loaded, first_names |-> first_names,
                        last_names |-> last_names],
            returned |-> loaded]

\* str.title: a letter is upper-cased after a character that is not a
\* letter and at the start, lower-cased after a letter
is_letter(c) ==
  \E i \in 1..Len(LowerCase) : c = LowerCase[i] \/ c = UpperCase[i]

title(s) ==
  [i \in 1..Len(s) |->
     IF i = 1 \/ ~is_letter(s[i - 1]) THEN upper_char(s[i]) ELSE lower_char(s[i])]

\* a check that asks for the first name only
validate_first_name_only(first_name, last_name) ==
  LET errors == IF first_name = <<>> \/ strip(first_name) = <<>>
                THEN <<"First name required">> ELSE <<>>
      valid == Len(errors) = 0
  IN  [valid |-> valid, confidence |-> IF valid THEN 8 ELSE 0,
       errors |-> errors, warnings |-> <<>>, suggestions |-> EmptyDict,
       normalized |-> [first_name |-> title(strip(first_name)),
                       last_name |-> title(strip(last_name))]]

\* EnhancedNameValidator.validate; processing_time_ms, a reading of the
\* clock, is left out of the result
validate(first_name, last_name) ==
  LET errors ==
        (IF first_name = <<>> \/ strip(first_name) = <<>>
         THEN <<"First name required">> ELSE <<>>)
        \o (IF last_name = <<>> \/ strip(last_name) = <<>>
            THEN <<"Last name required">> ELSE <<>>)
      valid == Len(errors) = 0
  IN  [valid |-> valid, confidence |-> IF valid THEN 8 ELSE 0,
       errors |-> errors, warnings |-> <<>>, suggestions |-> EmptyDict,
       normalized |-> [first_name |-> title(strip(first_name)),
                       last_name |-> title(strip(last_name))]]

\* NameDictionaryLoader.male_names / female_names: created empty and never
\* filled by load_dictionaries
male_names == {}
female_names == {}

any_suffix(s, endings) == \E i \in 1..Len(endings) : endswith(s, endings[i])

\* NameDictionaryLoader.predict_gender, loaded being NameDictionaryLoader.loaded
loader_predict_gender(first_name, loaded) ==
  IF first_name = <<>> \/ ~loaded THEN <<>>
  ELSE LET name_clean == lower(strip(first_name))
       IN  IF name_clean \in male_names THEN <<"M">>
           ELSE IF name_clean \in female_names THEN <<"F">>
           ELSE IF any_suffix(name_clean, << <<"a">>, <<"i","a">>, <<"a","n","a">>, <<"e","l","l","a">> >>)
                THEN <<"F">>
           ELSE IF any_suffix(name_clean, << <<"e","r">>, <<"o","n">>, <<"a","n">> >>)
                THEN <<"M">>
           ELSE <<>>

common_female ==
  { <<"m","a","r","y">>, <<"j","e","n","n","i","f","e","r">>, <<"p","a","t","r","i","c","i","a">>, <<"l","i","n","d","a">>,
    <<"b","a","r","b","a","r","a">>, <<"s","u","s","a","n">>, <<"j","e","s","s","i","c","a">>, <<"s","a","r","a","h">>,
    <<"k","a","r","e","n">>, <<"n","a","n","c","y">> }

common_male ==
  { <<"j","a","m","e","s">>, <<"j","o","h","n">>, <<"r","o","b","e","r","t">>, <<"m","i","c","h","a","e","l">>,
    <<"w","i","l","l","i","a","m">>, <<"d","a","v","i","d">>, <<"r","i","c","h","a","r","d">>, <<"c","h","a","r","l","e","s">>,
    <<"j","o","s","e","p","h">>, <<"t","h","o","m","a","s">> }

\* ValidationService._predict_gender_api
_predict_gender_api(first_name) ==
  IF first_name = <<>> THEN <<>>
  ELSE IF dictionary_loader \in {"unloaded", "loaded"}
  THEN loader_predict_gender(first_name, dictionary_loader = "loaded")
  ELSE LET name_lower == lower(first_name)
       IN  IF any_suffix(name_lower, << <<"a">>, <<"i","a">>, <<"a","n","a">>, <<"e","l","l","a">>,
                                        <<"i","n","a">>, <<"l","y","n">>, <<"l","y","n","n">>, <<"e","l","l","e">> >>)
           THEN <<"F">>
           ELSE IF any_suffix(name_lower, << <<"e","r">>, <<"o","n">>, <<"a","n">>, <<"e","n">>, <<"s","o","n">> >>)
           THEN <<"M">>
           ELSE IF name_lower \in common_female THEN <<"F">>
           ELSE IF name_lower \in common_male THEN <<"M">>
           ELSE <<>>

\* api/main.py predict_gender; with a standardizer whose dictionary_loader is
\* None the call dictionary_loader.predict_gender raises AttributeError
predict_gender(first_name) ==
  IF first_name = <<>> THEN Str(<<>>)
  ELSE IF dictionary_loader = "no_loader"
  THEN Raise("'NoneType' object has no attribute 'predict_gender'")
  ELSE IF dictionary_loader \in {"unloaded", "loaded"}
  THEN Str(loader_predict_gender(first_name, dictionary_loader = "loaded"))
  ELSE LET name_lower == lower(first_name)
       IN  IF any_suffix(name_lower, << <<"a">>, <<"i","a">>, <<"e","l","l","a">> >>) THEN Str(<<"F">>)
           ELSE IF any_suffix(name_lower, << <<"e","r">>, <<"o","n">>, <<"a","n">> >>) THEN Str(<<"M">>)
           ELSE Str(<<>>)

\* NameValidationAPITab._predict_gender, the copy of the UI tab
_predict_gender(first_name) ==
  IF first_name = <<>> THEN <<>>
  ELSE IF dictionary_loader \in {"unloaded", "loaded"}
  THEN loader_predict_gender(first_name, dictionary_loader = "loaded")
  ELSE LET name_lower == lower(first_name)
       IN  IF any_suffix(name_lower, << <<"a">>, <<"i","a">>, <<"a","n","a">>, <<"e","l","l","a">>,
                                        <<"i","n","a">>, <<"l","y","n">>, <<"l","y","n","n">>, <<"e","l","l","e">> >>)
           THEN <<"F">>
           ELSE IF any_suffix(name_lower, << <<"e","r">>, <<"o","n">>, <<"a","n">>, <<"e","n">>, <<"s","o","n">> >>)
           THEN <<"M">>
           ELSE IF name_lower \in common_female THEN <<"F">>
           ELSE IF name_lower \in common_male THEN <<"M">>
           ELSE <<>>

----------------------------------------------------------------------------
(* Record classifier, service copy *)

CouldNotParse == "Could not parse name into valid components"

\* an organization branch that also files the name as a first name
organization_components_with_first_name(name) ==
  [organization_name |-> name, first_name |-> name, last_name |-> <<>>,
   middle_name |-> <<>>]

\* an organization branch that runs the tokenizer on the name
organization_components_tokenized(name) ==
  [organization_name |-> name,
   first_name |-> by_position(split(name)).first_name,
   last_name |-> by_position(split(name)).last_name,
   middle_name |-> by_position(split(name)).middle_name]

\* the parsed_components of the organization branch
organization_components(name) ==
  [organization_name |-> name, first_name |-> <<>>, last_name |-> <<>>,
   middle_name |-> <<>>]

\* a prediction that is applied whether or not the caller gave a hint
parsed_gender_overwriting(gender_hint, first_name, predicted, enabled) ==
  IF enabled /\ first_name # <<>> /\ predicted # <<>>
  THEN predicted
  ELSE gender_hint

\* the gender of an individual whose name was parsed: the caller's hint,
\* or the prediction when there is no hint, a first name and a prediction
parsed_gender(gender_hint, first_name, predicted, enabled) ==
  IF enabled /\ gender_hint = <<>> /\ first_name # <<>> /\ predicted # <<>>
  THEN predicted
  ELSE gender_hint

\* a verdict that scores in percent
service_verdict_percent(first_name, last_name) ==
  IF first_name # <<>> \/ last_name # <<>>
  THEN [validation_status |-> "valid", confidence_score |-> 80,
        errors |-> <<>>, warnings |-> <<>>]
  ELSE [validation_status |-> "invalid", confidence_score |-> 20,
        errors |-> <<CouldNotParse>>, warnings |-> <<>>]

\* status, score, errors and warnings of a parsed individual in the service
service_verdict(first_name, last_name) ==
  IF name_validator = "available"
  THEN IF first_name # <<>> \/ last_name # <<>>
       THEN LET validation_result == validate(first_name, last_name)
            IN  IF validation_result.valid
                THEN [validation_status |-> "valid",
                      confidence_score |-> validation_result.confidence,
                      errors |-> <<>>, warnings |-> <<>>]
                ELSE [validation_status |-> "warning", confidence_score |-> 4,
                      errors |-> <<>>, warnings |-> validation_result.errors]
       ELSE [validation_status |-> "invalid", confidence_score |-> 2,
             errors |-> <<CouldNotParse>>, warnings |-> <<>>]
  ELSE IF first_name # <<>> \/ last_name # <<>>
       THEN [validation_status |-> "valid", confidence_score |-> 7,
             errors |-> <<>>, warnings |-> <<>>]
       ELSE [validation_status |-> "invalid", confidence_score |-> 2,
             errors |-> <<CouldNotParse>>, warnings |-> <<>>]

\* the first field, in the order the code reads them, whose read raises
first_bad_field(record) ==
  IF record.uniqueid.t = "absent" THEN Raise("'uniqueid'")
  ELSE IF record.name.t = "absent" THEN Raise("'name'")
  ELSE IF record.name.t # "str" THEN Raise(NoStrip(record.name))
  ELSE IF get_or_empty(record.gender).t # "str" THEN Raise(NoStrip(record.gender))
  ELSE IF get_or_empty(record.party_type).t # "str" THEN Raise(NoStrip(record.party_type))
  ELSE IF get_or_empty(record.parseInd).t # "str" THEN Raise(NoStrip(record.parseInd))
  ELSE EmptyDict

\* ValidationService._process_api_record
_process_api_record(record, validate_gender, validate_party_type) ==
  IF Raised(first_bad_field(record)) THEN first_bad_field(record)
  ELSE
  LET uniqueid == record.uniqueid
      name == strip(record.name.v)
      gender_hint == strip(get_or_empty(record.gender).v)
      party_type_hint == strip(get_or_empty(record.party_type).v)
      parse_ind == strip(get_or_empty(record.parseInd).v)
      is_org == _detect_organization_api(name, party_type_hint)
      party_type == IF is_org THEN <<"O">> ELSE <<"I">>
      party_suggestion ==
        IF validate_party_type /\ party_type_hint = <<>>
        THEN DictPut(EmptyDict, "party_type_prediction", party_type)
        ELSE EmptyDict
  IN
  IF is_org
  THEN [uniqueid |-> uniqueid, name |-> Str(name), gender |-> <<>>,
        party_type |-> party_type, parse_indicator |-> <<"N">>,
        validation_status |-> "valid", confidence_score |-> 9,
        parsed_components |-> organization_components(name),
        suggestions |-> party_suggestion, errors |-> <<>>, warnings |-> <<>>]
  ELSE IF upper(parse_ind) = <<"Y">> \/ parse_ind = <<>>
  THEN LET parsed == _parse_individual_name_api(name)
           verdict == service_verdict(parsed.first_name, parsed.last_name)
           predicted == _predict_gender_api(parsed.first_name)
           gender == parsed_gender(gender_hint, parsed.first_name, predicted,
                                   validate_gender)
       IN  [uniqueid |-> uniqueid, name |-> Str(name), gender |-> gender,
            party_type |-> party_type, parse_indicator |-> <<"Y">>,
            validation_status |-> verdict.validation_status,
            confidence_score |-> verdict.confidence_score,
            parsed_components |-> parsed,
            suggestions |->
              IF gender # gender_hint
              THEN DictPut(party_suggestion, "gender_prediction", predicted)
              ELSE party_suggestion,
            errors |-> verdict.errors, warnings |-> verdict.warnings]
  ELSE [uniqueid |-> uniqueid, name |-> Str(name), gender |-> gender_hint,
        party_type |-> party_type, parse_indicator |-> <<"N">>,
        validation_status |-> "valid", confidence_score |-> 6,
        parsed_components |->
          [original_name |-> name, first_name |-> <<>>, last_name |-> <<>>,
           middle_name |-> <<>>],
        suggestions |-> party_suggestion, errors |-> <<>>, warnings |-> <<>>]

----------------------------------------------------------------------------
(* Record classifier, REST API copy *)

\* pydantic Suggestions().dict()
Suggestions ==
  [name_suggestions |-> <<>>, gender_prediction |-> <<>>,
   party_type_prediction |-> <<>>]

\* status and score of a parsed individual with a first or last name
api_verdict(first_name, last_name) ==
  IF name_validator = "available"
  THEN LET validation_result == validate(first_name, last_name)
       IN  [validation_status |->
              IF validation_result.valid THEN "valid" ELSE "warning",
            confidence_score |-> validation_result.confidence]
  ELSE [validation_status |-> "valid", confidence_score |-> 7]

\* api/main.py process_single_name_record
process_single_name_record(record) ==
  IF Raised(first_bad_field(record)) THEN first_bad_field(record)
  ELSE
  LET uniqueid == record.uniqueid
      name == strip(record.name.v)
      gender_hint == strip(get_or_empty(record.gender).v)
      party_type_hint == strip(get_or_empty(record.party_type).v)
      parse_ind == strip(get_or_empty(record.parseInd).v)
      is_org == detect_organization(name, party_type_hint)
      party_type == IF is_org THEN <<"O">> ELSE <<"I">>
      with_party(suggestions) ==
        IF party_type_hint = <<>>
        THEN DictPut(suggestions, "party_type_prediction", party_type)
        ELSE suggestions
  IN
  IF is_org
  THEN [uniqueid |-> uniqueid, name |-> Str(name), gender |-> <<>>,
        party_type |-> party_type, parse_indicator |-> <<"N">>,
        validation_status |-> "valid", confidence_score |-> 9,
        parsed_components |-> ParsedComponents(<<>>, <<>>, <<>>, name),
        suggestions |-> with_party(Suggestions),
        errors |-> <<>>, warnings |-> <<>>]
  ELSE IF upper(parse_ind) = <<"Y">> \/ parse_ind = <<>>
  THEN LET parsed == parse_individual_name(name)
           first_name == parsed.first_name
           last_name == parsed.last_name
       IN  IF first_name # <<>> \/ last_name # <<>>
           THEN LET verdict == api_verdict(first_name, last_name)
                    predicting == gender_hint = <<>> /\ first_name # <<>>
                    predicted == predict_gender(first_name)
                IN  IF predicting /\ Raised(predicted) THEN predicted
                    ELSE
                    LET predicted_gender == IF predicting THEN predicted.v ELSE <<>>
                        gender == parsed_gender(gender_hint, first_name,
                                                predicted_gender, TRUE)
                    IN  [uniqueid |-> uniqueid, name |-> Str(name), gender |-> gender,
                         party_type |-> party_type, parse_indicator |-> <<"Y">>,
                         validation_status |-> verdict.validation_status,
                         confidence_score |-> verdict.confidence_score,
                         parsed_components |-> parsed,
                         suggestions |->
                           with_party(IF gender # gender_hint
                                      THEN DictPut(Suggestions, "gender_prediction",
                                                   predicted_gender)
                                      ELSE Suggestions),
                         errors |-> <<>>, warnings |-> <<>>]
           ELSE [uniqueid |-> uniqueid, name |-> Str(name), gender |-> gender_hint,
                 party_type |-> party_type, parse_indicator |-> <<"Y">>,
                 validation_status |-> "invalid", confidence_score |-> 2,
                 parsed_components |-> parsed,
                 suggestions |-> with_party(Suggestions),
                 errors |-> <<CouldNotParse>>, warnings |-> <<>>]
  ELSE [uniqueid |-> uniqueid, name |-> Str(name), gender |-> gender_hint,
        party_type |-> party_type, parse_indicator |-> <<"N">>,
        validation_status |-> "valid", confidence_score |-> 6,
        parsed_components |-> ParsedComponents(<<>>, <<>>, <<>>, <<>>),
        suggestions |-> with_party(Suggestions),
        errors |-> <<>>, warnings |-> <<>>]

----------------------------------------------------------------------------
(* Record classifier, bulk CSV copy *)

Digits == <<"0","1","2","3","4","5","6","7","8","9">>

RECURSIVE str_int(_)
str_int(n) == IF n < 10 THEN <<Digits[n + 1]>>
              ELSE str_int(n \div 10) \o <<Digits[(n % 10) + 1]>>

\* f"row_{row_num}"
row_id(row_num) == <<"r","o","w","_">> \o str_int(row_num)

\* str(cell): a missing cell is NaN and prints as 'nan'
str_cell(f) == IF f.t = "nan" THEN nan ELSE f.v

\* NameFormatStandardizer.process_record; row.id is Absent when the file has
\* no id column
process_record(row, row_num) ==
  LET record_id == IF row.id.t = "absent" THEN Str(row_id(row_num)) ELSE row.id
      full_name == strip(str_cell(row.name))
      result == [id |-> record_id, original_name |-> full_name,
                 first_name |-> <<>>, last_name |-> <<>>, middle_name |-> <<>>,
                 gender |-> <<>>, party_type |-> <<>>,
                 is_organization |-> FALSE, processing_successful |-> FALSE]
  IN  IF full_name = <<>> \/ full_name \in {nan, None, <<>>}
      THEN result
      ELSE IF is_organization_simple(full_name)
      THEN DictPut([result EXCEPT !.is_organization = TRUE,
                                  !.party_type = <<"O">>,
                                  !.processing_successful = TRUE],
                   "organization_name", full_name)
      ELSE LET parsed == parse_name_simple(full_name)
           IN  [result EXCEPT !.first_name = parsed.first_name,
                              !.last_name = parsed.last_name,
                              !.middle_name = parsed.middle_name,
                              !.party_type = <<"I">>,
                              !.processing_successful =
                                 (parsed.first_name # <<>> \/ parsed.last_name # <<>>)]

\* ValidationService.is_address_validation_available: address_validator is
\* "none" (no USPS credentials), "not_configured" or "configured"
is_address_validation_available(address_validator) ==
  address_validator # "none" /\ address_validator = "configured"

\* the error that the except clause of validate_single_record files
SingleValidationError(e) == <<"Single validation error: ", e>>

\* ValidationService.validate_single_record; address is the four address
\* fields, address_outcome what address_validator.validate_address gives
\* when it is called: a result or a raised exception.  timestamp and
\* processing_time_ms, readings of the clock, are left out of the result
validate_single_record(first_name, last_name, address, address_validator, address_outcome) ==
  LET results ==
        [name_result |-> NoneValue, address_result |-> NoneValue,
         overall_valid |-> FALSE, overall_confidence |-> 0,
         errors |-> <<>>, warnings |-> <<>>]
      named ==
        IF name_validator = "available"
        THEN [results EXCEPT !.name_result = validate(first_name, last_name)]
        ELSE [results EXCEPT !.errors = <<"Name validation service unavailable">>]
      address_given ==
        /\ address.street_address # ""
        /\ address.city # ""
        /\ address.state # ""
        /\ address.zip_code # ""
      calls_usps == address_given /\ is_address_validation_available(address_validator)
      addressed ==
        IF ~address_given THEN named
        ELSE IF calls_usps
        THEN [named EXCEPT !.address_result = address_outcome]
        ELSE [named EXCEPT
                !.address_result = [success |-> FALSE,
                                    error |-> "USPS API not configured",
                                    deliverable |-> FALSE],
                !.warnings = <<"USPS validation unavailable">>]
      name_valid ==
        IF addressed.name_result # NoneValue THEN addressed.name_result.valid ELSE FALSE
      address_deliverable ==
        IF addressed.address_result # NoneValue /\ addressed.address_result # EmptyDict
        THEN Get(addressed.address_result, "deliverable", TRUE)
        ELSE TRUE
      name_confidence ==
        IF addressed.name_result # NoneValue THEN addressed.name_result.confidence ELSE 0
  IN  IF calls_usps /\ Raised(address_outcome)
      THEN [named EXCEPT
              !.errors = Append(named.errors, SingleValidationError(address_outcome.exc))]
      ELSE [addressed EXCEPT !.overall_valid = name_valid /\ address_deliverable,
                             !.overall_confidence = name_confidence]

----------------------------------------------------------------------------
(* Batch coordinators of the JSON paths *)

\* f'record_{i+1}'
record_id(i) == <<"r","e","c","o","r","d","_">> \o str_int(i)

\* the error_result built in the except clause of validate_api_records;
\* record is an object, i its 1-based position
error_result(record, i, message) ==
  [uniqueid |-> IF record.uniqueid.t = "absent" THEN Str(record_id(i))
                ELSE record.uniqueid,
   name |-> get_or_empty(record.name),
   gender |-> <<>>, party_type |-> <<>>, parse_indicator |-> <<>>,
   validation_status |-> "error", confidence_score |-> 0,
   parsed_components |-> EmptyDict, suggestions |-> EmptyDict,
   errors |-> <<message>>, warnings |-> <<>>]

\* the body of the inner try of validate_api_records for one object
checked_record(record, i, validate_gender, validate_party_type) ==
  IF ~Truthy(record.uniqueid)
  THEN error_result(record, i, "uniqueid is required")
  ELSE IF ~Truthy(record.name)
  THEN error_result(record, i, "name is required")
  ELSE LET result == _process_api_record(record, validate_gender, validate_party_type)
       IN  IF Raised(result) THEN error_result(record, i, result.exc)
           ELSE result

CountSuccessful(results) ==
  Cardinality({i \in 1..Len(results) : results[i].validation_status # "error"})

\* ValidationService.validate_api_records.  The print that opens the loop
\* body calls record.get before the inner try, so an element that is not an
\* object raises there and the outer except answers for the whole call.
validate_api_records(records, validate_gender, validate_party_type) ==
  IF \E i \in 1..Len(records) : ~records[i].object
  THEN LET first == CHOOSE i \in 1..Len(records) :
                      /\ ~records[i].object
                      /\ \A j \in 1..(i - 1) : records[j].object
       IN  [status |-> "error", error |-> no_attribute_get(records[first]),
            processed_count |-> 0, successful_count |-> 0, results |-> <<>>]
  ELSE LET results == [i \in 1..Len(records) |->
                         checked_record(records[i], i, validate_gender,
                                        validate_party_type)]
       IN  [status |-> "success", processed_count |-> Len(results),
            successful_count |-> CountSuccessful(results), results |-> results]

\* api/main.py create_error_result
create_error_result(record, error_message) ==
  [uniqueid |-> get_or_empty(record.uniqueid),
   name |-> get_or_empty(record.name),
   gender |-> <<>>, party_type |-> <<>>, parse_indicator |-> <<>>,
   validation_status |-> "error", confidence_score |-> 0,
   parsed_components |-> ParsedComponents(<<>>, <<>>, <<>>, <<>>),
   suggestions |-> Suggestions,
   errors |-> <<error_message>>, warnings |-> <<>>]

\* the body of the loop of validate_names for one record
api_record(record) ==
  LET result == process_single_name_record(record)
  IN  IF Raised(result) THEN create_error_result(record, result.exc)
      ELSE result

\* api/main.py validate_names; the records have passed the NameRecord schema
validate_names(records) ==
  IF name_validator # "available"
  THEN [http_status |-> 503, detail |-> "Name validation service not configured"]
  ELSE LET results == [i \in 1..Len(records) |-> api_record(records[i])]
       IN  [http_status |-> 200, status |-> "success",
            processed_count |-> Len(results),
            successful_count |-> CountSuccessful(results), results |-> results]

----------------------------------------------------------------------------
(* Bulk CSV pipeline.  A file is a DataFrame: whether it has a name column, *)
(* the kind of its index (the default RangeIndex 0..n-1, or text labels),  *)
(* and the name cell of each row; the files have no id column.             *)

\* str(e) of the TypeError of idx + 1, idx being a text label
label_plus_one == "can only concatenate str (not \"int\") to str"

\* NameFormatStandardizer.standardize_dataframe: the processed records and
\* the info dict.  With a labelled index idx + 1 raises TypeError at the
\* first row, inside the try and again in the message of its handler, so
\* that the TypeError leaves the call.
standardize_dataframe(df) ==
  IF ~df.name_column
  THEN [records |-> <<>>, info |-> [success |-> FALSE]]
  ELSE IF df.index = "labels" /\ df.rows # <<>>
  THEN Raise(label_plus_one)
  ELSE LET processed_records ==
             [i \in 1..Len(df.rows) |->
                DictPut(process_record([id |-> Absent, name |-> df.rows[i]], i),
                        "source_file", df.file_name)]
           successful_count ==
             Cardinality({i \in 1..Len(processed_records) :
                            processed_records[i].processing_successful})
       IN  IF processed_records = <<>>
           THEN [records |-> <<>>, info |-> [success |-> FALSE]]
           ELSE [records |-> processed_records,
                 info |-> [success |-> successful_count > 0,
                           total_records |-> Len(df.rows),
                           successful_records |-> successful_count]]

\* the frames of a file and of the files after it put together; an exception
\* of the file comes before one of the files after it
combine(standardized, others) ==
  IF Raised(standardized) THEN standardized
  ELSE IF Raised(others) THEN others
  ELSE [combined_df |->
          (IF standardized.records # <<>>
              /\ Get(standardized.info, "successful_records", 0) > 0
           THEN standardized.records
           ELSE <<>>) \o others.combined_df]

\* NameFormatStandardizer.standardize_multiple_files: the combined frame,
\* or the exception of the first file whose standardize_dataframe raises
RECURSIVE standardize_multiple_files(_)
standardize_multiple_files(file_data_list) ==
  IF file_data_list = <<>> THEN [combined_df |-> <<>>]
  ELSE combine(standardize_dataframe(Head(file_data_list)),
               standardize_multiple_files(Tail(file_data_list)))

\* the result_record that the pipeline builds from a standardized row
result_record(row) ==
  LET base == [source_file |-> row.source_file, record_id |-> row.id,
               original_name |-> row.original_name,
               first_name |-> row.first_name, last_name |-> row.last_name,
               middle_name |-> row.middle_name, gender |-> row.gender,
               party_type |-> row.party_type,
               is_organization |-> row.is_organization,
               processing_successful |-> row.processing_successful]
  IN  IF row.is_organization
      THEN DictPut(base, "organization_name",
                   Get(row, "organization_name", row.original_name))
      ELSE base

\* ValidationService.process_complete_name_validation_pipeline, max_records
\* being None
process_complete_name_validation_pipeline(file_data_list) ==
  IF dictionary_loader = "no_standardizer"
  THEN [success |-> FALSE,
        error |-> <<"Standardization failed: Name standardizer not initialized">>]
  ELSE LET standardized == standardize_multiple_files(file_data_list)
           standardized_df == standardized.combined_df
       IN  IF Raised(standardized)
           THEN [success |-> FALSE,
                 error |-> <<"Standardization failed: Name standardization failed: ",
                             standardized.exc>>]
           ELSE IF standardized_df = <<>>
           THEN [success |-> FALSE,
                 error |-> <<"Standardization failed: No valid names found after standardization">>]
           ELSE LET validation_results ==
                      [i \in 1..Len(standardized_df) |-> result_record(standardized_df[i])]
                    successful_validations ==
                      Cardinality({i \in 1..Len(validation_results) :
                                     validation_results[i].processing_successful})
                IN  [success |-> successful_validations > 0,
                     summary |->
                       [files_processed |-> Len(file_data_list),
                        validated_names |-> Len(validation_results),
                        successful_validations |-> successful_validations,
                        failed_validations |->
                          Len(validation_results) - successful_validations],
                     validation |-> [records |-> validation_results]]

----------------------------------------------------------------------------
(* CSV jobs of the REST API.  A job is accepted by an endpoint, which      *)
(* files a JobStatus in processing_jobs and schedules a background task.   *)
(* The task is a coroutine: it gives up control only in asyncio.sleep,     *)
(* after each row, so what it does from one sleep to the next (or to its   *)
(* end) is one step.  progress is in percent (10 stands for 0.1), and the  *)
(* task keeps, in written, every value it assigned to the progress of its  *)
(* job, in the order of the assignments.                                   *)

\* find_column_value of extract_record_from_csv_row, for the cell of the
\* first column of the row that matches the field's aliases
find_column_value(cell, default) ==
  IF cell.t = "nan" THEN default
  ELSE LET value == strip(cell.v)
       IN  IF value # <<>> /\ lower(value) \notin {nan, lower(None), <<>>}
           THEN value
           ELSE default

\* api/main.py extract_record_from_csv_row; index is the 0-based row label
extract_record_from_csv_row(row, index) ==
  Object(Str(find_column_value(row.uniqueid, row_id(index + 1))),
         Str(find_column_value(row.name, <<>>)),
         Str(find_column_value(row.gender, <<>>)),
         Str(find_column_value(row.party_type, <<>>)),
         Str(find_column_value(row.parseInd, <<"Y">>)))

\* the JobStatus that an endpoint files for a new job
JobStatus(job_id) ==
  [job_id |-> job_id, status |-> "processing", progress |-> 0,
   processed_count |-> 0, total_count |-> 0, download_url |-> "None",
   error_message |-> "None"]

\* the except clause of a background task
job_failed(job, task, message) ==
  [job |-> [job EXCEPT !.status = "failed", !.error_message = message],
   task |-> [task EXCEPT !.pc = "finished"]]

\* an end of task that leaves the job as it is when the results cannot be
\* saved
finish_job_silently(job, task, saved, removed) ==
  IF ~saved THEN [job |-> job, task |-> [task EXCEPT !.pc = "finished"]]
  ELSE [job |-> [job EXCEPT !.status = "completed", !.progress = 100,
                            !.download_url = "results_file"],
        task |-> [task EXCEPT !.pc = "finished",
                              !.written = Append(task.written, 100)]]

\* the end of a background task, after the last row: save_results_to_file,
\* then completion, then for an upload the removal of the temporary file;
\* saved and removed tell whether the file system let these succeed
finish_job(job, task, saved, removed) ==
  IF ~saved THEN job_failed(job, task, "results file cannot be written")
  ELSE LET completed == [job EXCEPT !.status = "completed", !.progress = 100,
                                    !.download_url = "results_file"]
           ended == [task EXCEPT !.written = Append(task.written, 100)]
       IN  IF task.kind = "upload" /\ ~removed
           THEN job_failed(completed, ended, "temporary file cannot be removed")
           ELSE [job |-> completed, task |-> [ended EXCEPT !.pc = "finished"]]

\* the loop of a background task from its current row to the next sleep
process_rows(job, task, saved, removed) ==
  IF task.rows # <<>>
  THEN LET record == extract_record_from_csv_row(Head(task.rows), task.done)
           result == process_single_name_record(record)
           progress == (100 * (task.done + 1)) \div job.total_count
       IN  IF Raised(result) THEN job_failed(job, task, result.exc)
           ELSE [job |-> [job EXCEPT !.processed_count = task.done + 1,
                                     !.progress = progress],
                 task |-> [task EXCEPT !.rows = Tail(task.rows),
                                       !.done = task.done + 1, !.pc = "sleeping",
                                       !.written = Append(task.written, progress)]]
  ELSE finish_job(job, task, saved, removed)

\* df.head(n): the first n rows, and for a negative n all the rows but the
\* last -n
head(df, n) ==
  IF n >= Len(df) THEN df
  ELSE IF n >= 0 THEN SubSeq(df, 1, n)
  ELSE IF Len(df) + n <= 0 THEN <<>>
  ELSE SubSeq(df, 1, Len(df) + n)

\* Python min of two integers
min(a, b) == IF a <= b THEN a ELSE b

\* process_csv_file_background and process_csv_url_background from their
\* start: read.ok is false when pd.read_csv raises or the path does not
\* exist, else read.rows are the rows that were read; min raises TypeError
\* when max_records is None
start_job(job, task, read, saved, removed) ==
  LET processing == [job EXCEPT !.status = "processing", !.progress = 10]
      started == [task EXCEPT !.written = Append(task.written, 10)]
  IN  IF ~read.ok
      THEN job_failed(processing, started, "CSV file cannot be read")
      ELSE IF task.max_records.none
      THEN job_failed(processing, started,
                      "'<' not supported between instances of 'NoneType' and 'int'")
      ELSE process_rows([processing EXCEPT
                           !.total_count = min(Len(read.rows), task.max_records.n)],
                        [started EXCEPT !.rows = head(read.rows, task.max_records.n)],
                        saved, removed)

\* one step of a background task
background_step(job, task, read, saved, removed) ==
  IF task.pc = "scheduled" THEN start_job(job, task, read, saved, removed)
  ELSE process_rows(job, task, saved, removed)

----------------------------------------------------------------------------
(* The application logger.  An AppLogger keeps two buffers, the log        *)
(* entries and the performance metrics, each cut to its last entries when  *)
(* it grows past its limit.  The timestamp of an entry, a reading of the   *)
(* wall clock, is left out of the entry; the order of a buffer is the      *)
(* order of the calls.                                                      *)

\* AppLogger.__init__
AppLogger(max_logs) ==
  [logs |-> <<>>, performance_metrics |-> <<>>, max_logs |-> max_logs,
   max_metrics |-> 500, enabled |-> TRUE]

\* the default of max_logs
DefaultMaxLogs == 1000

\* Python list[-n:]: the last n items for 0 < n < len(list), the items from
\* index -n on for n < 0, and the whole list for n = 0, -0 being 0
last_items(list, n) ==
  IF n = 0 \/ n >= Len(list) THEN list
  ELSE IF n > 0 THEN SubSeq(list, Len(list) - n + 1, Len(list))
  ELSE SubSeq(list, (-n) + 1, Len(list))

\* AppLogger.log
log(logger, message, category, level) ==
  IF ~logger.enabled THEN logger
  ELSE LET log_entry == [level |-> upper(level), category |-> upper(category),
                         message |-> message]
           logs == Append(logger.logs, log_entry)
       IN  [logger EXCEPT !.logs = IF Len(logs) > logger.max_logs
                                   THEN last_items(logs, logger.max_logs)
                                   ELSE logs]

\* the message that track_performance logs
performance_message(operation, duration_ms, success) ==
  <<"P","e","r","f","o","r","m","a","n","c","e",":"," ">> \o operation \o <<" ","c","o","m","p","l","e","t","e","d"," ","i","n"," ">> \o str_int(duration_ms)
    \o <<"m","s"," ","(">> \o (IF success THEN <<"s","u","c","c","e","s","s">> ELSE <<"f","a","i","l","u","r","e">>) \o <<")">>

\* AppLogger.track_performance
track_performance(logger, operation, duration_ms, success) ==
  LET metric == [operation |-> operation, duration_ms |-> duration_ms,
                 success |-> success]
      metrics == Append(logger.performance_metrics, metric)
      tracked == [logger EXCEPT !.performance_metrics =
                    IF Len(metrics) > logger.max_metrics
                    THEN last_items(metrics, logger.max_metrics)
                    ELSE metrics]
  IN  log(tracked, performance_message(operation, duration_ms, success),
          <<"P","E","R","F","O","R","M","A","N","C","E">>, <<"D","E","B","U","G">>)

\* AppLogger.clear
clear(logger) ==
  log([logger EXCEPT !.logs = <<>>, !.performance_metrics = <<>>],
      <<"L","o","g","g","e","r"," ","c","l","e","a","r","e","d">>, <<"S","Y","S","T","E","M">>, <<"I","N","F","O">>)

\* AppLogger.disable
disable(logger) == [logger EXCEPT !.enabled = FALSE]

\* AppLogger.enable
enable(logger) ==
  log([logger EXCEPT !.enabled = TRUE], <<"L","o","g","g","e","r"," ","e","n","a","b","l","e","d">>, <<"S","Y","S","T","E","M">>, <<"I","N","F","O">>)

----------------------------------------------------------------------------
(* Bounded inputs *)

MaxTokens == 4
MaxRecTokens == 2
MaxRecords == 2
MaxFiles == 2
MaxRows == 2
MaxDictRows == 2
LongFileRows == 11
MaxCalls == 4

SeqsUpTo(S, n) == UNION { [1..k -> S] : k \in 0..n }

\* names for the tokenizers
ParseTokens == { <<"D","r",".">>, <<"J","o","h","n">>, <<"M","i","c","h","a","e","l">>, <<"S","m","i","t","h">>, <<"J","r">> }

Placeholders == { <<>>, <<" ">>, <<" "," "," ">>, nan, None, <<" ">> \o nan }

ParseNames ==
  { join(<<" ">>, toks) : toks \in SeqsUpTo(ParseTokens, MaxTokens) } \cup Placeholders

\* records for the classifiers
RecordTokens == { <<"D","r",".">>, <<"M","a","r","i","a">>, <<"S","m","i","t","h">>, <<"S","c","h","o","o","l">>, <<"H","o","s","p","i","t","a","l">> }

RecordNames ==
  { join(<<" ">>, toks) : toks \in SeqsUpTo(RecordTokens, MaxRecTokens) }
    \cup { <<" "," ">>, <<" ">> \o <<"S","m","i","t","h"," ","H","o","s","p","i","t","a","l">> \o <<" ">> }

GenderHints == { <<>>, <<"M">>, <<" ">> }
PartyTypeHints == { <<>>, <<"I">>, <<"O">>, <<"o">> }
ParseIndicators == { <<>>, <<"Y">>, <<"y">>, <<"N">> }

Records ==
  { Object(Str(<<"7">>), Str(n), Str(g), Str(p), Str(y)) :
      n \in RecordNames, g \in GenderHints, p \in PartyTypeHints, y \in ParseIndicators }

\* rows for the CSV record classifier: with and without an id cell
CsvRows ==
  { [id |-> i, name |-> n] :
      i \in {Absent, Str(<<"7">>)},
      n \in { Str(x) : x \in RecordNames } \cup { [t |-> "nan", v |-> <<>>], Str(None) } }

\* payload elements for the service batch: well-formed and malformed ones
MariaSmith == <<"M","a","r","i","a"," ","S","m","i","t","h">>
SmithHospital == <<"S","m","i","t","h"," ","H","o","s","p","i","t","a","l">>

BatchRecords ==
  { NotAnObject("str"), NotAnObject("int"), NotAnObject("NoneType"),
    NotAnObject("list"),
    Object(Str(<<"1">>), Str(MariaSmith), Str(<<>>), Str(<<>>), Str(<<"Y">>)),
    Object(Str(<<"2">>), Str(<<>>), Absent, Absent, Str(<<"Y">>)),
    Object(Str(<<"3">>), Str(SmithHospital), Str(<<"M">>), Absent, Absent),
    Object(Absent, Str(MariaSmith), Absent, Absent, Absent),
    Object(Str(<<"5">>), Absent, Absent, Absent, Absent),
    Object(Str(<<"6">>), IntValue, Absent, Absent, Absent),
    Object(Str(<<"8">>), Str(MariaSmith), NoneValue, Absent, Absent),
    Object(Str(<<"4">>), Str(<<"M","a","r","i","a">>), Absent, Absent, Absent),
    Object(Str(<<"9">>), Str(MariaSmith), Absent, Str(<<"I">>), Str(<<"N">>)) }

\* payload elements that pass the NameRecord schema of the REST API: uniqueid
\* and name are str, the hints are str or null
ApiBatchRecords ==
  { Object(Str(<<"1">>), Str(MariaSmith), Str(<<>>), Str(<<>>), Str(<<"Y">>)),
    Object(Str(<<"2">>), Str(<<>>), Str(<<>>), Str(<<>>), Str(<<"Y">>)),
    Object(Str(<<"3">>), Str(SmithHospital), Str(<<"M">>), Str(<<>>), Str(<<>>)),
    Object(Str(<<"8">>), Str(MariaSmith), NoneValue, Str(<<>>), Str(<<>>)),
    Object(Str(<<"9">>), Str(<<"D","r",".">>), Str(<<>>), Str(<<>>), NoneValue) }

\* files for the CSV pipeline
Cells == { [t |-> "nan", v |-> <<>>], Str(MariaSmith), Str(SmithHospital) }

Files ==
  { [file_name |-> "names.csv", name_column |-> c, index |-> x, rows |-> r] :
      c \in BOOLEAN, x \in {"range", "labels"}, r \in SeqsUpTo(Cells, MaxRows) }

----------------------------------------------------------------------------
(* State machine.  The handlers are stateless: a call reads the service as *)
(* constructed and changes nothing in it, so every behaviour is the        *)
(* construction followed by one call, whose argument and return value the  *)
(* state records.                                                          *)

\* dictionary directories: missing, or holding any of three files, each
\* unreadable or with up to MaxDictRows cells in its first column
DictCells == { <<" ","M","a","r","i","a">>, <<"n","a","n">> }

DictFiles ==
  { [readable |-> FALSE, rows |-> <<>>] }
    \cup { [readable |-> TRUE, rows |-> r] : r \in SeqsUpTo(DictCells, MaxDictRows) }

DictFileNames == {"first_names.csv", "last_names.csv", "names.csv"}

Directories ==
  { [exists |-> FALSE, files |-> <<>>] }
    \cup { [exists |-> TRUE, files |-> f] :
             f \in UNION { [S -> DictFiles] : S \in SUBSET DictFileNames } }

AskedNames == { <<"Z","z","z","q","x">>, <<" ","M","A","R","I","A"," ">>, <<"S","m","i","t","h">> }

\* the directories that a store is loaded from again and again: those whose
\* files have one row at most
StoreDirectories ==
  { d \in Directories : \A f \in DOMAIN d.files : Len(d.files[f].rows) <= 1 }

\* first names given to the gender predictors: the names of the two lists
\* of common names and names that end, or do not end, in a listed suffix
GenderNames ==
  common_female \cup common_male
    \cup { <<>>, <<"M","a","r","i","a">>, <<"C","a","r","o","l","i","n","a">>, <<"J","o","c","e","l","y","n">>, <<"M","i","c","h","e","l","l","e">>,
           <<"J","a","s","o","n">>, <<"P","e","t","e","r">>, <<"B","o","b">>, <<"S","U","S","A","N">> }

\* inputs of validate_single_record
SingleFirstNames == { <<>>, <<" ">>, <<"M","a","r","i","a">> }
SingleLastNames == { <<>>, <<"S","m","i","t","h">> }

Addresses ==
  [street_address : {"", "1 Main St"}, city : {"", "Springfield"},
   state : {"", "IL"}, zip_code : {"", "62701"}]

AddressValidators == {"none", "not_configured", "configured"}

\* what validate_address gives: a deliverable address, an undeliverable one,
\* a result without the deliverable entry, an empty result, an exception
AddressOutcomes ==
  { [success |-> TRUE, deliverable |-> TRUE],
    [success |-> FALSE, deliverable |-> FALSE],
    [success |-> FALSE],
    EmptyDict,
    Raise("USPS request failed") }

\* the limits an AppLogger is built with
MaxLogsChoices == {0, 1, 2}

\* what the callers of the logger give it
LogMessages == { <<"a">>, <<"b">> }

LogCategory == <<"G","e","n","e","r","a","l">>

LogLevel == <<"i","n","f","o">>

TrackedOperation == <<"l","o","a","d">>

TrackedDurations == {5, 12}

\* the metrics buffer one entry short of its limit: what a disabled logger
\* holds after as many track_performance calls
AlmostFullMetrics ==
  [i \in 1..(AppLogger(0).max_metrics - 1) |->
     [operation |-> TrackedOperation, duration_ms |-> i, success |-> TRUE]]

\* the loggers that a run starts from
StartLoggers ==
  { AppLogger(max_logs) : max_logs \in MaxLogsChoices }
    \cup { [AppLogger(max_logs) EXCEPT !.enabled = FALSE,
                                        !.performance_metrics = AlmostFullMetrics] :
           max_logs \in MaxLogsChoices }

\* the job ids that uuid4 hands out
JobIds == {"job-1", "job-2"}

\* rows of a CSV file given to a job: a named row and an empty one
NanCell == [t |-> "nan", v |-> <<>>]

BlankRow ==
  [uniqueid |-> NanCell, name |-> NanCell, gender |-> NanCell,
   party_type |-> NanCell, parseInd |-> NanCell]

JobRows ==
  { [uniqueid |-> Str(<<"7">>), name |-> Str(MariaSmith), gender |-> NanCell,
     party_type |-> NanCell, parseInd |-> NanCell],
    BlankRow }

\* a file of more than ten rows
LongFile == [i \in 1..LongFileRows |-> BlankRow]

\* what reading the CSV of a job gives: an exception or the rows
ReadOutcomes ==
  { [ok |-> FALSE, rows |-> <<>>] }
    \cup { [ok |-> TRUE, rows |-> r] : r \in SeqsUpTo(JobRows, MaxRows) }
    \cup { [ok |-> TRUE, rows |-> LongFile] }

\* max_records of a request: an integer, which no endpoint restricts, and
\* for the URL endpoint, whose field is Optional[int], null as well
MaxRecordsChoices == { [none |-> FALSE, n |-> n] : n \in {-1, 1, 1000} }

NoMaxRecords == [none |-> TRUE, n |-> 0]

\* ValidationService.__init__: name_validator is None when its construction
\* raised; name_standardizer is None when its construction raised, and its
\* dictionary_loader is None when the loader could not be built, unloaded
\* when load_dictionaries returned False, loaded otherwise
Init ==
  /\ name_validator \in {"available", "none"}
  /\ dictionary_loader \in {"no_standardizer", "no_loader", "unloaded", "loaded"}
  /\ op = "init"
  /\ arg = <<>>
  /\ ret = <<>>
  /\ processing_jobs = EmptyDict
  /\ background_tasks = EmptyDict
  /\ dictionary_store = NewLoader
  /\ app_logger = AppLogger(DefaultMaxLogs)

\* the service as built where the dictionary directory does not exist
InitDefault ==
  /\ name_validator = "available"
  /\ dictionary_loader = "unloaded"
  /\ op = "init"
  /\ arg = <<>>
  /\ ret = <<>>
  /\ processing_jobs = EmptyDict
  /\ background_tasks = EmptyDict
  /\ dictionary_store = NewLoader
  /\ app_logger = AppLogger(DefaultMaxLogs)

\* the pipeline reads name_standardizer only
InitCsv ==
  /\ name_validator = "available"
  /\ dictionary_loader \in {"no_standardizer", "no_loader", "unloaded", "loaded"}
  /\ op = "init"
  /\ arg = <<>>
  /\ ret = <<>>
  /\ processing_jobs = EmptyDict
  /\ background_tasks = EmptyDict
  /\ dictionary_store = NewLoader
  /\ app_logger = AppLogger(DefaultMaxLogs)

ParseService ==
  /\ op = "init"
  /\ \E full_name \in ParseNames :
       /\ op' = "_parse_individual_name_api"
       /\ arg' = full_name
       /\ ret' = _parse_individual_name_api(full_name)
       /\ UNCHANGED <<name_validator, dictionary_loader, processing_jobs, background_tasks,
                    dictionary_store, app_logger>>

ParseApi ==
  /\ op = "init"
  /\ \E full_name \in ParseNames :
       /\ op' = "parse_individual_name"
       /\ arg' = full_name
       /\ ret' = parse_individual_name(full_name)
       /\ UNCHANGED <<name_validator, dictionary_loader, processing_jobs, background_tasks,
                    dictionary_store, app_logger>>

ParseCsv ==
  /\ op = "init"
  /\ \E full_name \in ParseNames :
       /\ op' = "parse_name_simple"
       /\ arg' = full_name
       /\ ret' = parse_name_simple(full_name)
       /\ UNCHANGED <<name_validator, dictionary_loader, processing_jobs, background_tasks,
                    dictionary_store, app_logger>>

ClassifyService ==
  /\ op = "init"
  /\ \E record \in Records, validate_gender \in BOOLEAN, validate_party_type \in BOOLEAN :
       /\ op' = "_process_api_record"
       /\ arg' = [record |-> record, validate_gender |-> validate_gender,
                  validate_party_type |-> validate_party_type]
       /\ ret' = _process_api_record(record, validate_gender, validate_party_type)
       /\ UNCHANGED <<name_validator, dictionary_loader, processing_jobs, background_tasks,
                    dictionary_store, app_logger>>

ClassifyApi ==
  /\ op = "init"
  /\ \E record \in Records :
       /\ op' = "process_single_name_record"
       /\ arg' = [record |-> record]
       /\ ret' = process_single_name_record(record)
       /\ UNCHANGED <<name_validator, dictionary_loader, processing_jobs, background_tasks,
                    dictionary_store, app_logger>>

ClassifyCsv ==
  /\ op = "init"
  /\ \E row \in CsvRows, row_num \in 1..MaxRows :
       /\ op' = "process_record"
       /\ arg' = [row |-> row, row_num |-> row_num]
       /\ ret' = process_record(row, row_num)
       /\ UNCHANGED <<name_validator, dictionary_loader, processing_jobs, background_tasks,
                    dictionary_store, app_logger>>

ValidateApiRecords ==
  /\ op = "init"
  /\ \E records \in SeqsUpTo(BatchRecords, MaxRecords),
        validate_gender \in BOOLEAN, validate_party_type \in BOOLEAN :
       /\ op' = "validate_api_records"
       /\ arg' = [records |-> records, validate_gender |-> validate_gender,
                  validate_party_type |-> validate_party_type]
       /\ ret' = validate_api_records(records, validate_gender, validate_party_type)
       /\ UNCHANGED <<name_validator, dictionary_loader, processing_jobs, background_tasks,
                    dictionary_store, app_logger>>

ValidateNames ==
  /\ op = "init"
  /\ \E records \in SeqsUpTo(ApiBatchRecords, MaxRecords) :
       /\ op' = "validate_names"
       /\ arg' = [records |-> records]
       /\ ret' = validate_names(records)
       /\ UNCHANGED <<name_validator, dictionary_loader, processing_jobs, background_tasks,
                    dictionary_store, app_logger>>

Pipeline ==
  /\ op = "init"
  /\ \E file_data_list \in SeqsUpTo(Files, MaxFiles) :
       /\ op' = "process_complete_name_validation_pipeline"
       /\ arg' = [file_data_list |-> file_data_list]
       /\ ret' = process_complete_name_validation_pipeline(file_data_list)
       /\ UNCHANGED <<name_validator, dictionary_loader, processing_jobs, background_tasks,
                    dictionary_store, app_logger>>

\* the body of the pipeline's loop over the standardized rows, for one row
PipelineRow ==
  /\ op = "init"
  /\ \E row \in CsvRows, row_num \in 1..MaxRows :
       /\ op' = "result_record"
       /\ arg' = [row |-> row, row_num |-> row_num]
       /\ ret' = result_record(DictPut(process_record(row, row_num),
                                       "source_file", "names.csv"))
       /\ UNCHANGED <<name_validator, dictionary_loader, processing_jobs, background_tasks,
                    dictionary_store, app_logger>>

IsValidFirstName ==
  /\ op = "init"
  /\ \E directory \in Directories, name \in AskedNames :
       /\ op' = "is_valid_first_name"
       /\ arg' = [directory |-> directory, name |-> name]
       /\ ret' = is_valid_first_name(load_dictionaries(directory), name)
       /\ UNCHANGED <<name_validator, dictionary_loader, processing_jobs, background_tasks,
                    dictionary_store, app_logger>>

IsValidLastName ==
  /\ op = "init"
  /\ \E directory \in Directories, name \in AskedNames :
       /\ op' = "is_valid_last_name"
       /\ arg' = [directory |-> directory, name |-> name]
       /\ ret' = is_valid_last_name(load_dictionaries(directory), name)
       /\ UNCHANGED <<name_validator, dictionary_loader, processing_jobs, background_tasks,
                    dictionary_store, app_logger>>

Validate ==
  /\ op = "init"
  /\ \E first_name \in RecordNames \cup AskedNames,
        last_name \in RecordNames \cup AskedNames :
       /\ op' = "validate"
       /\ arg' = [first_name |-> first_name, last_name |-> last_name]
       /\ ret' = validate(first_name, last_name)
       /\ UNCHANGED <<name_validator, dictionary_loader, processing_jobs, background_tasks,
                    dictionary_store, app_logger>>

\* the API server after startup_event, with no job yet
InitJobs ==
  /\ name_validator = "available"
  /\ dictionary_loader \in {"no_loader", "loaded"}
  /\ op = "init"
  /\ arg = <<>>
  /\ ret = <<>>
  /\ processing_jobs = EmptyDict
  /\ background_tasks = EmptyDict
  /\ dictionary_store = NewLoader
  /\ app_logger = AppLogger(DefaultMaxLogs)

\* the job and the task that an endpoint creates: pc is where the task
\* stands, rows are the rows its loop has still to take, done is
\* len(results), written the values it assigned to progress so far.  A task
\* is "dropped" when the endpoint that added it raised: the tasks of a
\* request run after its response, and such a request has none.
NewTask(kind, max_records) ==
  [kind |-> kind, max_records |-> max_records, pc |-> "scheduled",
   rows |-> <<>>, done |-> 0, written |-> <<>>]

\* GET /api/v1/job/{job_id}/status
get_job_status(job_id) ==
  IF job_id \in DOMAIN processing_jobs
  THEN [http_status |-> 200, job |-> processing_jobs[job_id]]
  ELSE [http_status |-> 404, detail |-> "Job not found"]

\* POST /api/v1/validate-csv-upload: is_csv tells whether the file name ends
\* in .csv, stored whether the upload could be written to the temporary
\* file; a request that is refused (400, 500) leaves no job
ValidateCsvUpload ==
  \E is_csv \in BOOLEAN, stored \in BOOLEAN, max_records \in MaxRecordsChoices :
    /\ UNCHANGED <<name_validator, dictionary_loader, op, arg, ret,
                 dictionary_store, app_logger>>
    /\ IF ~is_csv \/ ~stored
       THEN UNCHANGED <<processing_jobs, background_tasks>>
       ELSE \E job_id \in JobIds \ DOMAIN processing_jobs :
              /\ processing_jobs' = DictPut(processing_jobs, job_id, JobStatus(job_id))
              /\ background_tasks' =
                   DictPut(background_tasks, job_id, NewTask("upload", max_records))

\* POST /api/v1/validate-csv-url: a request with neither csv_url nor
\* csv_path is refused (400) and leaves no job.  With max_records null the
\* job is filed and the task added, then max_records // 100 raises
\* TypeError in the response: the request fails and its task is never run.
ValidateCsvUrl ==
  \E csv_url \in BOOLEAN, csv_path \in BOOLEAN,
     max_records \in MaxRecordsChoices \cup {NoMaxRecords} :
    /\ UNCHANGED <<name_validator, dictionary_loader, op, arg, ret,
                 dictionary_store, app_logger>>
    /\ IF ~csv_url /\ ~csv_path
       THEN UNCHANGED <<processing_jobs, background_tasks>>
       ELSE \E job_id \in JobIds \ DOMAIN processing_jobs :
              /\ processing_jobs' = DictPut(processing_jobs, job_id, JobStatus(job_id))
              /\ background_tasks' =
                   DictPut(background_tasks, job_id,
                           IF max_records.none
                           THEN [NewTask("url", max_records) EXCEPT !.pc = "dropped"]
                           ELSE NewTask("url", max_records))

\* whether the step that the task of a job takes next, having read `read`,
\* reaches the end of the task
AtLastRow(task, read) ==
  IF task.pc = "scheduled"
  THEN read.ok /\ ~task.max_records.none
         /\ head(read.rows, task.max_records.n) = <<>>
  ELSE task.rows = <<>>

\* the background task of a job has been added, was not dropped with its
\* request and has not returned
Runnable(job_id) ==
  /\ job_id \in DOMAIN background_tasks
  /\ background_tasks[job_id].pc \notin {"finished", "dropped"}

\* the background task of a job runs from where it stands to its next sleep
\* or to its end; the file system decides what a read gives and whether the
\* results are saved and the temporary file removed
RunBackgroundTask(job_id) ==
  /\ Runnable(job_id)
  /\ \E read \in (IF background_tasks[job_id].pc = "scheduled"
                  THEN ReadOutcomes ELSE {[ok |-> FALSE, rows |-> <<>>]}) :
       \E saved \in (IF AtLastRow(background_tasks[job_id], read)
                     THEN BOOLEAN ELSE {TRUE}) :
         \E removed \in (IF saved /\ AtLastRow(background_tasks[job_id], read)
                            /\ background_tasks[job_id].kind = "upload"
                         THEN BOOLEAN ELSE {TRUE}) :
           LET step == background_step(processing_jobs[job_id],
                                       background_tasks[job_id], read, saved, removed)
           IN  /\ processing_jobs' = [processing_jobs EXCEPT ![job_id] = step.job]
               /\ background_tasks' = [background_tasks EXCEPT ![job_id] = step.task]
  /\ UNCHANGED <<name_validator, dictionary_loader, op, arg, ret,
                 dictionary_store, app_logger>>

\* the record classifiers of the three call sites
Next == ClassifyService \/ ClassifyApi \/ ClassifyCsv \/ PipelineRow

Spec == Init /\ [][Next]_vars

\* the tokenizers, which read nothing of the service
NextTokenizer == ParseService \/ ParseApi \/ ParseCsv

SpecTokenizer == InitDefault /\ [][NextTokenizer]_vars

\* the batch coordinators of the JSON paths
NextBatch == ValidateApiRecords \/ ValidateNames

SpecBatch == Init /\ [][NextBatch]_vars

\* the bulk CSV pipeline
NextCsv == Pipeline

SpecCsv == InitCsv /\ [][NextCsv]_vars

\* the dictionary store, loaded from a directory and asked about a name
NextDictionary == IsValidFirstName \/ IsValidLastName

SpecDictionary == InitDefault /\ [][NextDictionary]_vars

\* the name-validity check called on its own
NextValidator == Validate

SpecValidator == InitDefault /\ [][NextValidator]_vars

\* the CSV jobs
NextJobs ==
  \/ ValidateCsvUpload
  \/ ValidateCsvUrl
  \/ \E job_id \in JobIds : RunBackgroundTask(job_id)

\* a step of the task of a job: no other action changes a task once added
TaskStep(job_id) ==
  /\ Runnable(job_id)
  /\ background_tasks'[job_id] # background_tasks[job_id]

\* the event loop runs every task that is ready, so the task of a job is not
\* left waiting for ever: weak fairness of RunBackgroundTask(job_id), whose
\* enabling condition is Runnable(job_id) and whose steps are the steps of
\* the task, every one of them moving it on
Scheduled(job_id) ==
  \/ []<>~Runnable(job_id)
  \/ []<><<TaskStep(job_id)>>_vars

SpecJobs ==
  InitJobs /\ [][NextJobs]_vars /\ \A job_id \in JobIds : Scheduled(job_id)

\* a dictionary store that lives on: it is loaded, perhaps several times and
\* from a directory that changed meanwhile, and asked about names
LoadDictionaries ==
  \E directory \in StoreDirectories :
    LET call == loader_load_dictionaries(dictionary_store, directory)
    IN  /\ op' = "load_dictionaries"
        /\ arg' = [directory |-> directory]
        /\ ret' = call.returned
        /\ dictionary_store' = call.loader
        /\ UNCHANGED <<name_validator, dictionary_loader, processing_jobs,
                       background_tasks, app_logger>>

AskFirstName ==
  \E name \in AskedNames :
    /\ op' = "store.is_valid_first_name"
    /\ arg' = [name |-> name]
    /\ ret' = is_valid_first_name(dictionary_store, name)
    /\ UNCHANGED <<name_validator, dictionary_loader, processing_jobs,
                   background_tasks, dictionary_store, app_logger>>

AskLastName ==
  \E name \in AskedNames :
    /\ op' = "store.is_valid_last_name"
    /\ arg' = [name |-> name]
    /\ ret' = is_valid_last_name(dictionary_store, name)
    /\ UNCHANGED <<name_validator, dictionary_loader, processing_jobs,
                   background_tasks, dictionary_store, app_logger>>

NextStore == LoadDictionaries \/ AskFirstName \/ AskLastName

SpecStore == InitDefault /\ [][NextStore]_vars

\* the gender predictors called on their own
LoaderPredictGender ==
  /\ op = "init"
  /\ \E first_name \in GenderNames, loaded \in BOOLEAN :
       /\ op' = "loader.predict_gender"
       /\ arg' = [first_name |-> first_name, loaded |-> loaded]
       /\ ret' = loader_predict_gender(first_name, loaded)
       /\ UNCHANGED <<name_validator, dictionary_loader, processing_jobs,
                      background_tasks, dictionary_store, app_logger>>

PredictGenderApi ==
  /\ op = "init"
  /\ \E first_name \in GenderNames :
       /\ op' = "_predict_gender_api"
       /\ arg' = [first_name |-> first_name,
                  loaded |-> dictionary_loader = "loaded"]
       /\ ret' = _predict_gender_api(first_name)
       /\ UNCHANGED <<name_validator, dictionary_loader, processing_jobs,
                      background_tasks, dictionary_store, app_logger>>

PredictGenderUi ==
  /\ op = "init"
  /\ \E first_name \in GenderNames :
       /\ op' = "_predict_gender"
       /\ arg' = [first_name |-> first_name,
                  loaded |-> dictionary_loader = "loaded"]
       /\ ret' = _predict_gender(first_name)
       /\ UNCHANGED <<name_validator, dictionary_loader, processing_jobs,
                      background_tasks, dictionary_store, app_logger>>

NextGender == LoaderPredictGender \/ PredictGenderApi \/ PredictGenderUi

SpecGender == Init /\ [][NextGender]_vars

\* a name and an address validated together
ValidateSingleRecord ==
  /\ op = "init"
  /\ \E first_name \in SingleFirstNames, last_name \in SingleLastNames,
        address \in Addresses, address_validator \in AddressValidators,
        address_outcome \in AddressOutcomes :
       /\ op' = "validate_single_record"
       /\ arg' = [first_name |-> first_name, last_name |-> last_name,
                  address |-> address, address_validator |-> address_validator,
                  address_outcome |-> address_outcome]
       /\ ret' = validate_single_record(first_name, last_name, address,
                                        address_validator, address_outcome)
       /\ UNCHANGED <<name_validator, dictionary_loader, processing_jobs,
                      background_tasks, dictionary_store, app_logger>>

NextSingle == ValidateSingleRecord

SpecSingle == Init /\ [][NextSingle]_vars

\* the logger on its own: a logger just built, or a disabled one whose
\* metrics buffer is nearly full; arg holds the logger before the call and
\* the number of the call
InitLogger ==
  /\ name_validator = "available"
  /\ dictionary_loader = "no_loader"
  /\ op = "init"
  /\ arg = <<>>
  /\ ret = <<>>
  /\ processing_jobs = EmptyDict
  /\ background_tasks = EmptyDict
  /\ dictionary_store = NewLoader
  /\ app_logger \in StartLoggers

Calls == IF op = "init" THEN 0 ELSE arg.nth

LoggerCall(name, added, after) ==
  /\ Calls < MaxCalls
  /\ op' = name
  /\ arg' = [logger |-> app_logger, added |-> added, nth |-> Calls + 1]
  /\ ret' = <<>>
  /\ app_logger' = after
  /\ UNCHANGED <<name_validator, dictionary_loader, processing_jobs,
                 background_tasks, dictionary_store>>

Log ==
  \E message \in LogMessages :
    LoggerCall("log", <<message>>, log(app_logger, message, LogCategory, LogLevel))

TrackPerformance ==
  \E duration_ms \in TrackedDurations, success \in BOOLEAN :
    LoggerCall("track_performance",
               <<performance_message(TrackedOperation, duration_ms, success)>>,
               track_performance(app_logger, TrackedOperation, duration_ms, success))

Clear == LoggerCall("clear", <<<<"L","o","g","g","e","r"," ","c","l","e","a","r","e","d">>>>, clear(app_logger))

Enable == LoggerCall("enable", <<<<"L","o","g","g","e","r"," ","e","n","a","b","l","e","d">>>>, enable(app_logger))

Disable == LoggerCall("disable", <<>>, disable(app_logger))

NextLogger == Log \/ TrackPerformance \/ Clear \/ Enable \/ Disable

SpecLogger == InitLogger /\ [][NextLogger]_vars

----------------------------------------------------------------------------
(* Claims *)

\* the input records of a batch call and the results it answered with
BatchCall == op \in {"validate_api_records", "validate_names"}

Answered ==
  \/ op = "validate_api_records"
  \/ op = "validate_names" /\ ret.http_status = 200

\* C1: for every list of input records given to validate_api_records or to
\* validate_names, the response has status "success", as many results as
\* there are input records, processed_count equal to that number, and
\* results[i] carries the uniqueid of input record i.
C1_OneResultPerInputRecord ==
  Answered =>
    /\ ret.status = "success"
    /\ Len(ret.results) = Len(arg.records)
    /\ ret.processed_count = Len(arg.records)
    /\ \A i \in 1..Len(arg.records) :
         (arg.records[i].object /\ arg.records[i].uniqueid.t # "absent")
           => ret.results[i].uniqueid = arg.records[i].uniqueid

\* the classification of a well-formed record raises an exception
ClassificationRaises(record) ==
  /\ record.object
  /\ Truthy(record.uniqueid)
  /\ Truthy(record.name)
  /\ IF op = "validate_api_records"
     THEN Raised(_process_api_record(record, arg.validate_gender,
                                     arg.validate_party_type))
     ELSE Raised(process_single_name_record(record))

ClassificationError(record) ==
  IF op = "validate_api_records"
  THEN _process_api_record(record, arg.validate_gender, arg.validate_party_type).exc
  ELSE process_single_name_record(record).exc

\* what the batch call answers for a list made of this record alone
Alone(record) ==
  IF op = "validate_api_records"
  THEN validate_api_records(<<record>>, arg.validate_gender, arg.validate_party_type)
  ELSE validate_names(<<record>>)

\* the outcome of a result, its id left out
Outcome(result) ==
  [f \in (DOMAIN result) \ {"uniqueid"} |-> result[f]]

\* C2: an exception raised while classifying one record never propagates out
\* of the batch call and never changes the outcome of the other records: the
\* failing record gets a result with validation_status "error", score 0.0
\* and errors equal to [the exception message], and every other record of
\* the list gets the result it would get if it were processed alone.
C2_RecordExceptionIsolated ==
  (Answered /\ \E i \in 1..Len(arg.records) : ClassificationRaises(arg.records[i]))
    => /\ ret.status = "success"
       /\ Len(ret.results) = Len(arg.records)
       /\ \A i \in 1..Len(arg.records) :
            IF ClassificationRaises(arg.records[i])
            THEN /\ ret.results[i].validation_status = "error"
                 /\ ret.results[i].confidence_score = 0
                 /\ ret.results[i].errors = <<ClassificationError(arg.records[i])>>
            ELSE /\ Alone(arg.records[i]).status = "success"
                 /\ Outcome(ret.results[i]) = Outcome(Alone(arg.records[i]).results[1])

\* the call was one of the JSON record classifiers and returned a result
JsonClassified ==
  /\ op \in {"_process_api_record", "process_single_name_record"}
  /\ ~Raised(ret)

\* the inputs of a JSON classifier call as the classifier normalizes them
NameGiven == strip(arg.record.name.v)
PartyTypeHint == strip(arg.record.party_type.v)
GenderHint == strip(arg.record.gender.v)
ParseHint == strip(arg.record.parseInd.v)

\* C3: organization detection answers true for the hint "O" and false for
\* the hint "I", in either letter case and whatever keywords the name
\* contains, so that the classifiers of the service and of the API return
\* party_type "O" for the hint "O" and "I" for the hint "I".
C3_HintIsAuthoritative ==
  JsonClassified =>
    /\ PartyTypeHint \in {<<"O">>, <<"o">>}
         => /\ _detect_organization_api(NameGiven, PartyTypeHint)
            /\ detect_organization(NameGiven, PartyTypeHint)
            /\ ret.party_type = <<"O">>
    /\ PartyTypeHint \in {<<"I">>, <<"i">>}
         => /\ ~_detect_organization_api(NameGiven, PartyTypeHint)
            /\ ~detect_organization(NameGiven, PartyTypeHint)
            /\ ret.party_type = <<"I">>

\* a name with an organization keyword, classified as an individual on the
\* caller's hint "I"
C3_Witness ==
  /\ op = "_process_api_record"
  /\ ~Raised(ret)
  /\ PartyTypeHint = <<"I">>
  /\ contains(lower(NameGiven), <<"h","o","s","p","i","t","a","l">>)
  /\ ret.party_type = <<"I">>

\* the keyword list of the specification
specified_keywords ==
  << <<"l","l","c">>, <<"i","n","c">>, <<"c","o","r","p">>, <<"l","t","d">>, <<"c","o",".">>,
     <<"c","o","r","p","o","r","a","t","i","o","n">>, <<"h","o","s","p","i","t","a","l">>, <<"m","e","d","i","c","a","l">>,
     <<"c","l","i","n","i","c">>, <<"c","e","n","t","e","r">>, <<"b","a","n","k">>, <<"t","r","u","s","t">>,
     <<"f","o","u","n","d","a","t","i","o","n">>, <<"u","n","i","v","e","r","s","i","t","y">>, <<"c","o","l","l","e","g","e">>,
     <<"s","c","h","o","o","l">>, <<"c","o","m","p","a","n","y">>, <<"s","e","r","v","i","c","e","s">>,
     <<"s","o","l","u","t","i","o","n","s">>, <<"g","r","o","u","p">>, <<"p","a","r","t","n","e","r","s">>,
     <<"a","s","s","o","c","i","a","t","e","s">>, <<"f","i","r","m">>, <<"o","f","f","i","c","e">> >>

HasSpecifiedKeyword(name) ==
  \E i \in 1..Len(specified_keywords) : contains(lower(name), specified_keywords[i])

\* the result is an organization whose organization_name is the given name
IsOrganization(party_type, components, name) ==
  /\ party_type = <<"O">>
  /\ Get(components, "organization_name", <<>>) = name
  /\ Get(components, "first_name", <<>>) = <<>>
  /\ Get(components, "middle_name", <<>>) = <<>>
  /\ Get(components, "last_name", <<>>) = <<>>

\* C4: a record with an empty party-type hint whose lower-cased name contains
\* a keyword of the specified list is classified, at every call site, with
\* party_type "O", organization_name equal to the trimmed name and empty
\* first, middle and last names.
C4_KeywordMeansOrganization ==
  /\ (JsonClassified /\ PartyTypeHint = <<>> /\ HasSpecifiedKeyword(NameGiven))
       => IsOrganization(ret.party_type, ret.parsed_components, NameGiven)
  /\ (op = "process_record" /\ HasSpecifiedKeyword(strip(str_cell(arg.row.name))))
       => IsOrganization(ret.party_type, ret, strip(str_cell(arg.row.name)))

title_and_suffix_words ==
  { <<"m","r">>, <<"m","r","s">>, <<"m","s">>, <<"m","i","s","s">>, <<"d","r">>, <<"p","r","o","f">>,
    <<"r","e","v">>, <<"j","u","d","g","e">>, <<"s","e","n","a","t","o","r">>, <<"c","a","p","t","a","i","n">>,
    <<"j","r">>, <<"s","r">>, <<"i","i","i">>, <<"i","v">>, <<"m","d">>, <<"p","h","d">>,
    <<"c","p","a">>, <<"e","s","q">> }

NoTitleOrSuffixIn(field) ==
  \A i \in 1..Len(split(field)) :
    rstrip_dot(lower(split(field)[i])) \notin title_and_suffix_words

Tokenized ==
  op \in {"_parse_individual_name_api", "parse_individual_name", "parse_name_simple"}

\* C5: no tokenizer leaves a title or suffix token in first_name, middle_name
\* or last_name, and "Dr. John Smith Jr" parses to first_name "John",
\* last_name "Smith" and an empty middle_name at every call site.
C5_NoTitleOrSuffixSurvives ==
  Tokenized =>
    /\ NoTitleOrSuffixIn(ret.first_name)
    /\ NoTitleOrSuffixIn(ret.middle_name)
    /\ NoTitleOrSuffixIn(ret.last_name)
    /\ arg = <<"D","r","."," ","J","o","h","n"," ","S","m","i","t","h"," ","J","r">>
         => /\ ret.first_name = <<"J","o","h","n">>
            /\ ret.last_name = <<"S","m","i","t","h">>
            /\ ret.middle_name = <<>>

\* C6, as claimed: for every record with a non-empty gender hint the gender
\* of the result equals the hint, in the organization branch as in the
\* individual branches.
C6_GenderHintKeptInEveryBranch ==
  (JsonClassified /\ GenderHint # <<>>) => ret.gender = GenderHint

\* C6, amended: for every record with a gender hint that is non-empty after
\* trimming and that the service or the API classifies as an individual,
\* parsed or not, the gender of the result equals the trimmed hint.
C6_GenderHintKeptForIndividuals ==
  (JsonClassified /\ GenderHint # <<>> /\ ret.party_type = <<"I">>)
    => ret.gender = GenderHint

\* an individual whose first name predicts "F" keeps the caller's "M"
C6_Witness ==
  /\ op = "_process_api_record"
  /\ ~Raised(ret)
  /\ arg.validate_gender
  /\ GenderHint = <<"M">>
  /\ ret.party_type = <<"I">>
  /\ ret.parsed_components.first_name = <<"M","a","r","i","a">>
  /\ _predict_gender_api(ret.parsed_components.first_name) = <<"F">>
  /\ ret.gender = <<"M">>

\* a well-formed record whose name, once titles and suffixes are dropped,
\* has no token left, to be parsed ("Y" or no indicator) and not an
\* organization by hint or by keyword
NothingToParse(record) ==
  /\ record.object
  /\ Truthy(record.uniqueid)
  /\ record.name.t = "str"
  /\ \A h \in {record.gender, record.party_type, record.parseInd} :
       h.t \in {"str", "absent"}
  /\ \A i \in 1..Len(split(record.name.v)) :
       rstrip_dot(lower(split(record.name.v)[i])) \in title_and_suffix_words
  /\ upper(strip(record.parseInd.v)) \in {<<"Y">>, <<>>}
  /\ upper(strip(record.party_type.v)) # <<"O">>
  /\ ~HasSpecifiedKeyword(record.name.v)

\* C7: a record whose name is empty or has no token left after the titles
\* and suffixes are dropped, with parseInd "Y" or empty and no organization
\* classification, gets validation_status "invalid", the error "Could not
\* parse name into valid components" and score 0.2 at every call site; it is
\* not made an "error" record.
C7_EmptyNameIsInvalid ==
  (Answered /\ ret.status = "success") =>
    \A i \in 1..Len(arg.records) :
      NothingToParse(arg.records[i])
        => /\ ret.results[i].validation_status = "invalid"
           /\ InList(CouldNotParse, ret.results[i].errors)
           /\ ret.results[i].confidence_score = 2

RECURSIVE TotalRows(_)
TotalRows(file_data_list) ==
  IF file_data_list = <<>> THEN 0
  ELSE Len(Head(file_data_list).rows) + TotalRows(Tail(file_data_list))

\* the result records that a pipeline call returned
PipelineRecords ==
  IF "validation" \in DOMAIN ret THEN ret.validation.records ELSE <<>>

\* C8: the bulk CSV pipeline, run without a record cap, returns exactly one
\* result record per input row over all the input files, whether the row's
\* name is empty, its processing raised or no row of its file succeeded.
C8_OneResultPerRow ==
  (op = "process_complete_name_validation_pipeline"
     /\ dictionary_loader # "no_standardizer")
    => Len(PipelineRecords) = TotalRows(arg.file_data_list)

\* the four name components of a result, missing keys read as empty
ComponentsOf(d) ==
  [k \in {"first_name", "middle_name", "last_name", "organization_name"} |->
     Get(d, k, <<>>)]

\* C9: for every input record the service path, the JSON API path and the
\* bulk CSV path produce the same party_type and the same first, middle,
\* last and organization components, and the service and the API the same
\* validation_status and confidence_score.
C9_CallSitesAgree ==
  (op = "_process_api_record" /\ ~Raised(ret)) =>
    LET api == process_single_name_record(arg.record)
        csv == process_record([id |-> arg.record.uniqueid, name |-> arg.record.name], 1)
    IN  /\ ~Raised(api)
        /\ api.party_type = ret.party_type
        /\ ComponentsOf(api.parsed_components) = ComponentsOf(ret.parsed_components)
        /\ api.validation_status = ret.validation_status
        /\ api.confidence_score = ret.confidence_score
        /\ csv.party_type = ret.party_type
        /\ ComponentsOf(csv) = ComponentsOf(ret.parsed_components)

\* the name components of the result record of any of the call sites
ResultComponents ==
  IF op \in {"_process_api_record", "process_single_name_record"}
  THEN ComponentsOf(ret.parsed_components)
  ELSE ComponentsOf(ret)

\* C10: in every result record of every call site, a non-empty
\* organization_name comes with empty first_name, middle_name and last_name.
C10_OrganizationExcludesPersonName ==
  (op \in {"_process_api_record", "process_single_name_record",
           "process_record", "result_record"} /\ ~Raised(ret))
    => (ResultComponents.organization_name # <<>>
          => /\ ResultComponents.first_name = <<>>
             /\ ResultComponents.middle_name = <<>>
             /\ ResultComponents.last_name = <<>>)

\* an organization record of the service, by keyword, with its name filed
\* as organization_name only
C10_Witness ==
  /\ op = "_process_api_record"
  /\ ~Raised(ret)
  /\ PartyTypeHint = <<>>
  /\ ResultComponents.organization_name = SmithHospital
  /\ ResultComponents.first_name = <<>>
  /\ ResultComponents.last_name = <<>>

\* the organization detector of the call site that was called
DetectedOrganization ==
  IF op = "_process_api_record"
  THEN _detect_organization_api(NameGiven, PartyTypeHint)
  ELSE detect_organization(NameGiven, PartyTypeHint)

\* C11: whenever the classifier of the service or of the API detects an
\* organization, the result has party_type "O", gender "", parse_indicator
\* "N" and confidence_score 0.9 whatever parse indicator the caller gave,
\* "Y" included, and the name is not tokenized: it is filed whole as
\* organization_name and no token of it is a first, middle or last name.
C11_OrganizationResultFields ==
  (JsonClassified /\ DetectedOrganization) =>
    /\ ret.party_type = <<"O">>
    /\ ret.gender = <<>>
    /\ ret.parse_indicator = <<"N">>
    /\ ret.confidence_score = 9
    /\ IsOrganization(ret.party_type, ret.parsed_components, NameGiven)

\* an organization by keyword, sent with parse indicator "Y" and a gender
C11_Witness ==
  /\ op = "process_single_name_record"
  /\ ~Raised(ret)
  /\ ParseHint = <<"Y">>
  /\ GenderHint = <<"M">>
  /\ PartyTypeHint = <<>>
  /\ NameGiven = SmithHospital
  /\ ret.parse_indicator = <<"N">>
  /\ ret.confidence_score = 9

\* the tokens of a name that are neither a title nor a suffix, in order
TokensLeft(full_name) ==
  SelectSeq(split(full_name),
            LAMBDA t : rstrip_dot(lower(t)) \notin title_and_suffix_words)

\* C12: the service tokenizer assigns the tokens left after the title and
\* suffix filter by position only: none gives all-empty components, one
\* gives first_name, two give first_name and last_name with an empty
\* middle_name, three or more give the first token as first_name, the last
\* token as last_name and the tokens between, in order and joined by single
\* spaces, as middle_name; "John Smith" gives John/Smith and "John Michael
\* Smith" gives John/Michael/Smith.
C12_SlotsByPosition ==
  (op = "_parse_individual_name_api") =>
    LET t == TokensLeft(arg)
        n == Len(t)
    IN  /\ n = 0 => ret = [first_name |-> <<>>, middle_name |-> <<>>, last_name |-> <<>>]
        /\ n = 1 => ret = [first_name |-> t[1], middle_name |-> <<>>, last_name |-> <<>>]
        /\ n = 2 => ret = [first_name |-> t[1], middle_name |-> <<>>, last_name |-> t[2]]
        /\ n >= 3 => ret = [first_name |-> t[1],
                            middle_name |-> join(<<" ">>, SubSeq(t, 2, n - 1)),
                            last_name |-> t[n]]
        /\ arg = <<"J","o","h","n"," ","S","m","i","t","h">>
             => ret = [first_name |-> <<"J","o","h","n">>, middle_name |-> <<>>,
                       last_name |-> <<"S","m","i","t","h">>]
        /\ arg = <<"J","o","h","n"," ","M","i","c","h","a","e","l"," ","S","m","i","t","h">>
             => ret = [first_name |-> <<"J","o","h","n">>, middle_name |-> <<"M","i","c","h","a","e","l">>,
                       last_name |-> <<"S","m","i","t","h">>]

\* four tokens left, the two in the middle joined by one space
C12_Witness ==
  /\ op = "_parse_individual_name_api"
  /\ arg = <<"J","o","h","n"," ","M","i","c","h","a","e","l"," ","J","o","h","n"," ","S","m","i","t","h">>
  /\ ret.first_name = <<"J","o","h","n">>
  /\ ret.middle_name = <<"M","i","c","h","a","e","l"," ","J","o","h","n">>
  /\ ret.last_name = <<"S","m","i","t","h">>

\* C13: every parser of the repository returns empty first, middle and last
\* names, and raises nothing, for an empty, a whitespace-only and a
\* placeholder name ("", "   ", "nan", "None").
C13_EmptyParseForEmptyNames ==
  (op \in {"_parse_individual_name_api", "parse_individual_name", "parse_name_simple"}
     /\ strip(arg) \in {<<>>, nan, None})
    => /\ ~Raised(ret)
       /\ ret.first_name = <<>>
       /\ ret.middle_name = <<>>
       /\ ret.last_name = <<>>

\* the directory gives the store nothing to load: it does not exist, holds
\* no file, or no readable file of it has a valid name in its first column
NothingToLoad(directory) ==
  \/ ~directory.exists
  \/ \A f \in DOMAIN directory.files :
       \/ ~directory.files[f].readable
       \/ \A i \in 1..Len(directory.files[f].rows) :
            ~_is_valid_name(lower(strip(directory.files[f].rows[i])))

\* C14: when the dictionary store is unloaded (directory missing, no file in
\* it, or no valid row in its files) is_valid_first_name and
\* is_valid_last_name return true for every name.
C14_UnloadedStoreAcceptsEveryName ==
  (op \in {"is_valid_first_name", "is_valid_last_name"}
     /\ NothingToLoad(arg.directory))
    => /\ ~load_dictionaries(arg.directory).loaded
       /\ ret = TRUE

\* a directory whose only file has no valid row, asked about an unknown name
C14_Witness ==
  /\ op = "is_valid_first_name"
  /\ arg.directory.exists
  /\ DOMAIN arg.directory.files = {"first_names.csv"}
  /\ arg.directory.files["first_names.csv"].readable
  /\ arg.directory.files["first_names.csv"].rows = << <<"n","a","n">> >>
  /\ arg.name = <<"Z","z","z","q","x">>
  /\ ret = TRUE

\* a payload object with a name and no uniqueid key, its hints well formed
NamedWithoutId(record) ==
  /\ record.object
  /\ record.uniqueid.t = "absent"
  /\ record.name.t = "str"
  /\ strip(record.name.v) # <<>>
  /\ \A h \in {record.gender, record.party_type, record.parseInd} :
       h.t \in {"str", "absent"}

\* C15: a record of a JSON batch that has a name and no uniqueid is
\* classified, not made an error record, and its result carries the
\* synthesized id row_N, N being the 1-based position of the record.
C15_MissingIdIsSynthesized ==
  (Answered /\ ret.status = "success") =>
    \A i \in 1..Len(arg.records) :
      NamedWithoutId(arg.records[i])
        => /\ ret.results[i].validation_status # "error"
           /\ ret.results[i].uniqueid = Str(row_id(i))

\* C16: every result record of a batch, whichever path produced it
\* (organization, individual parsed or unparsed, invalid, error), has a
\* validation_status among valid, invalid, warning and error and a
\* confidence_score within [0.0, 1.0].
C16_StatusAndScoreInRange ==
  (Answered /\ "results" \in DOMAIN ret) =>
    \A i \in 1..Len(ret.results) :
      /\ ret.results[i].validation_status \in {"valid", "invalid", "warning", "error"}
      /\ ret.results[i].confidence_score >= 0
      /\ ret.results[i].confidence_score <= 10

\* a batch of the service answered with an error record and a warning
C16_Witness ==
  /\ op = "validate_api_records"
  /\ ret.status = "success"
  /\ Len(ret.results) = 2
  /\ ret.results[1].validation_status = "error"
  /\ ret.results[1].confidence_score = 0
  /\ ret.results[2].validation_status = "warning"
  /\ ret.results[2].confidence_score = 4

\* C17: the result of EnhancedNameValidator.validate(first_name, last_name)
\* always has an analysis entry giving is_common for the first name and for
\* the last name, and a suggestions entry.
C17_ValidateGivesAnalysis ==
  (op = "validate") =>
    /\ "suggestions" \in DOMAIN ret
    /\ "analysis" \in DOMAIN ret
    /\ \A k \in {"first_name", "last_name"} :
         /\ k \in DOMAIN ret.analysis
         /\ "is_common" \in DOMAIN ret.analysis[k]

\* the status that a client reads for a job is "completed" or "failed"
Ended(job_id) ==
  /\ get_job_status(job_id).http_status = 200
  /\ get_job_status(job_id).job.status \in {"completed", "failed"}

\* the endpoint answered the request of the job with its id, and the task
\* of the job is one that the event loop schedules
Accepted(job_id) ==
  /\ job_id \in DOMAIN processing_jobs
  /\ background_tasks[job_id].pc # "dropped"

\* C18: every CSV job accepted by the upload or the URL endpoint eventually
\* has status "completed" or "failed", its background task being scheduled
\* fairly, and a job with one of these two statuses keeps its status for ever.
C18_JobsEndAndStayEnded ==
  /\ \A job_id \in JobIds : Accepted(job_id) ~> Ended(job_id)
  /\ [][\A job_id \in JobIds :
          Ended(job_id) =>
            /\ job_id \in DOMAIN processing_jobs'
            /\ processing_jobs'[job_id].status = processing_jobs[job_id].status]_vars

\* an upload job completed after two rows while a URL job failed
C18_Witness ==
  /\ DOMAIN processing_jobs = JobIds
  /\ \E a \in JobIds, b \in JobIds :
       /\ background_tasks[a].kind = "upload"
       /\ processing_jobs[a].status = "completed"
       /\ processing_jobs[a].processed_count = 2
       /\ background_tasks[b].kind = "url"
       /\ processing_jobs[b].status = "failed"

\* the classifier tokenized the name and found a first or a last name
TokenizedWithName ==
  /\ JsonClassified
  /\ ~DetectedOrganization
  /\ ret.parse_indicator = <<"Y">>
  /\ ret.parsed_components.first_name # <<>> \/ ret.parsed_components.last_name # <<>>

\* C19: when no name validator is wired in and the tokenizer returns a
\* non-empty first_name or last_name for an individual record, the result has
\* validation_status "valid" and confidence_score 0.8.
C19_NoValidatorGivesValidAtEightTenths ==
  (TokenizedWithName /\ name_validator = "none") =>
    /\ ret.validation_status = "valid"
    /\ ret.confidence_score = 8

\* what validate returns for the first and last name that the tokenizer gave
Validated ==
  validate(ret.parsed_components.first_name, ret.parsed_components.last_name)

\* C20: when a name validator is wired in and the tokenizer returns a
\* non-empty first_name or last_name, the validation_status of the record is
\* the one derived from validate(first_name, last_name) ("valid" exactly when
\* validate says so), its confidence_score is the confidence that validate
\* returned, and its warnings are the warnings that validate returned.
C20_VerdictIsTheValidatorsVerdict ==
  (TokenizedWithName /\ name_validator = "available") =>
    /\ (ret.validation_status = "valid") = Validated.valid
    /\ ret.confidence_score = Validated.confidence
    /\ ret.warnings = Validated.warnings

\* C21: after any sequence of load_dictionaries calls on a dictionary store,
\* a call returns true exactly when the first-name or the last-name set holds
\* a name, and when the most recent call returned false the store is marked
\* unloaded, so that every membership query that follows accepts.
C21_LoadReturnsWhetherNamesAreHeld ==
  (op = "load_dictionaries") =>
    /\ ret = (dictionary_store.first_names # {} \/ dictionary_store.last_names # {})
    /\ ~ret =>
         /\ ~dictionary_store.loaded
         /\ \A name \in AskedNames :
              /\ is_valid_first_name(dictionary_store, name)
              /\ is_valid_last_name(dictionary_store, name)

\* the suffix rule as the specification words it
FemaleEndings ==
  << <<"a">>, <<"i","a">>, <<"a","n","a">>, <<"e","l","l","a">>, <<"i","n","a">>, <<"l","y","n">>, <<"l","y","n","n">>, <<"e","l","l","e">> >>

MaleEndings == << <<"e","r">>, <<"o","n">>, <<"a","n">>, <<"e","n">>, <<"s","o","n">> >>

BySuffix(first_name) ==
  IF any_suffix(lower(first_name), FemaleEndings) THEN <<"F">>
  ELSE IF any_suffix(lower(first_name), MaleEndings) THEN <<"M">>
  ELSE <<>>

\* C22: predict_gender of the dictionary store and of the service applies
\* the suffix heuristic whether the store is loaded or not: a first name
\* that is in neither gender-labeled set gets "F" when its lower-cased form
\* ends in a, ia, ana, ella, ina, lyn, lynn or elle, else "M" when it ends in
\* er, on, an, en or son, else ""; a hit in the male or the female set of a
\* loaded store comes first.
C22_SuffixRuleLoadedOrNot ==
  (op \in {"loader.predict_gender", "_predict_gender_api"} /\ arg.first_name # <<>>) =>
    ret = (IF arg.loaded /\ lower(arg.first_name) \in male_names THEN <<"M">>
           ELSE IF arg.loaded /\ lower(arg.first_name) \in female_names THEN <<"F">>
           ELSE BySuffix(arg.first_name))

\* C29: the fallback gender heuristic of the service and of the UI tab, used
\* when no dictionary loader is available, agrees with its own lists: each
\* name of the common-female list is predicted "F" and each name of the
\* common-male list is predicted "M".
C29_FallbackAgreesWithItsLists ==
  (/\ op \in {"_predict_gender_api", "_predict_gender"}
   /\ dictionary_loader \in {"no_standardizer", "no_loader"}) =>
    /\ (arg.first_name \in common_female) => ret = <<"F">>
    /\ (arg.first_name \in common_male) => ret = <<"M">>

\* the parse indicator asks for parsing: "Y" in either case, or nothing
ParsingAsked == ParseHint \in { <<"Y">>, <<"y">>, <<>> }

\* C23: in the individual branch of the service the tokenizer is invoked
\* exactly when the parse indicator is "Y", compared without regard to case,
\* or empty; with the indicator "N" parsing is skipped: first_name,
\* middle_name and last_name stay empty, parse_indicator of the result is "N"
\* and confidence_score is 0.6.
C23_ParsedOnlyWhenAsked ==
  (op = "_process_api_record" /\ ~Raised(ret) /\ ~DetectedOrganization) =>
    IF ParsingAsked
    THEN ret.parsed_components = _parse_individual_name_api(NameGiven)
    ELSE /\ ret.parsed_components.first_name = <<>>
         /\ ret.parsed_components.middle_name = <<>>
         /\ ret.parsed_components.last_name = <<>>
         /\ ret.parse_indicator = <<"N">>
         /\ ret.confidence_score = 6

\* a two-token name parsed on the indicator "y"
C23_Witness ==
  /\ op = "_process_api_record"
  /\ ~Raised(ret)
  /\ ParseHint = <<"y">>
  /\ ret.party_type = <<"I">>
  /\ ret.parsed_components.first_name # <<>>
  /\ ret.parsed_components.last_name # <<>>

\* the same name left unparsed on the indicator "N"
C23_WitnessSkipped ==
  /\ op = "_process_api_record"
  /\ ~Raised(ret)
  /\ ParseHint = <<"N">>
  /\ ret.party_type = <<"I">>
  /\ Len(split(NameGiven)) = 2
  /\ ret.parsed_components.first_name = <<>>
  /\ ret.confidence_score = 6

\* text is title-cased: a letter is a capital exactly when no letter
\* comes right before it
TitleCased(text) ==
  \A i \in 1..Len(text) :
    is_letter(text[i]) =>
      IF i = 1 \/ ~is_letter(text[i - 1])
      THEN text[i] = upper_char(text[i])
      ELSE text[i] = lower_char(text[i])

\* normalized is the trimmed name, title-cased
NormalizedFrom(normalized, given) ==
  /\ lower(normalized) = lower(strip(given))
  /\ TitleCased(normalized)

\* C24: validate(first_name, last_name) returns valid = true exactly when
\* both names are non-empty after trimming; confidence is 0.8 when valid and
\* 0.0 otherwise; errors holds one entry per missing field ("First name
\* required", "Last name required") and is empty when valid; normalized holds
\* the trimmed, title-cased first and last name.
C24_ValidateChecksBothNames ==
  (op = "validate") =>
    LET no_first == strip(arg.first_name) = <<>>
        no_last == strip(arg.last_name) = <<>>
    IN  /\ ret.valid = (~no_first /\ ~no_last)
        /\ ret.confidence = (IF ret.valid THEN 8 ELSE 0)
        /\ ret.errors = (IF no_first THEN <<"First name required">> ELSE <<>>)
                          \o (IF no_last THEN <<"Last name required">> ELSE <<>>)
        /\ NormalizedFrom(ret.normalized.first_name, arg.first_name)
        /\ NormalizedFrom(ret.normalized.last_name, arg.last_name)

\* a first name alone, given in capitals between spaces
C24_Witness ==
  /\ op = "validate"
  /\ strip(arg.first_name) # <<>>
  /\ strip(arg.first_name) # arg.first_name
  /\ strip(arg.last_name) = <<>>
  /\ arg.last_name # <<>>
  /\ ~ret.valid
  /\ ret.errors = <<"Last name required">>
  /\ ret.normalized.first_name # strip(arg.first_name)

\* the address of the call was given in full
AddressGiven ==
  /\ arg.address.street_address # ""
  /\ arg.address.city # ""
  /\ arg.address.state # ""
  /\ arg.address.zip_code # ""

\* the address path of the call failed: the address validator is not
\* available, or validate_address raised
AddressPathFailed ==
  /\ AddressGiven
  /\ \/ arg.address_validator # "configured"
     \/ Raised(arg.address_outcome)

\* C25: in validate_single_record a failure of the address path (address
\* validator unavailable, or validate_address raising) neither aborts the
\* call nor taints the name outcome: the call returns, name_result is the
\* result of the name validator for the given names and overall_confidence
\* is the confidence of that result.
C25_AddressFailureLeavesNameOutcome ==
  (/\ op = "validate_single_record"
   /\ name_validator = "available"
   /\ AddressPathFailed) =>
    /\ ~Raised(ret)
    /\ ret.name_result = validate(arg.first_name, arg.last_name)
    /\ ret.overall_confidence = validate(arg.first_name, arg.last_name).confidence

\* the store that the call loaded
LoadedStore == load_dictionaries(arg.directory)

\* C26: a membership query never rejects for lack of data in its own set:
\* when the first-name set is empty, for instance because only a last-name
\* file was loaded and the store counts as loaded, is_valid_first_name
\* returns true for every name, and is_valid_last_name returns true for every
\* name when the last-name set is empty.
C26_EmptySetAcceptsEveryName ==
  /\ (op = "is_valid_first_name" /\ LoadedStore.first_names = {}) => ret
  /\ (op = "is_valid_last_name" /\ LoadedStore.last_names = {}) => ret

\* a sequence of numbers in which no value is below the one before it
NonDecreasing(values) ==
  \A i \in 1..(Len(values) - 1) : values[i] <= values[i + 1]

\* C27: the progress of a CSV job never decreases: from the 0.0 of its
\* creation on, each value that its background task writes to
\* processing_jobs[job_id].progress is greater than or equal to the value
\* written before it.
C27_ProgressNeverDecreases ==
  \A job_id \in DOMAIN background_tasks :
    NonDecreasing(<<0>> \o background_tasks[job_id].written)

\* a step leaves alone the entry of every job whose task did not take it
OwnEntryOnly ==
  \A job_id \in DOMAIN processing_jobs :
    background_tasks'[job_id] = background_tasks[job_id]
      => processing_jobs'[job_id] = processing_jobs[job_id]

\* the counts of a job are those of its own task and file
CountsOfOwnFile ==
  \A job_id \in DOMAIN processing_jobs :
    /\ processing_jobs[job_id].processed_count = background_tasks[job_id].done
    /\ processing_jobs[job_id].status = "completed"
         => processing_jobs[job_id].processed_count = processing_jobs[job_id].total_count

\* C28: CSV background jobs interleaved at their await points do not
\* interfere through processing_jobs: a step of one task writes only the
\* entry of its own job, the counts of a job are those of its own file, and
\* a job that is "completed" has processed_count equal to total_count.
C28_JobsDoNotInterfere ==
  [](CountsOfOwnFile) /\ [][OwnEntryOnly]_vars

\* one job completed with both rows of its file while the other is in the
\* middle of a longer file
C28_Witness ==
  /\ DOMAIN processing_jobs = JobIds
  /\ processing_jobs["job-1"].status = "completed"
  /\ processing_jobs["job-1"].processed_count = 2
  /\ processing_jobs["job-1"].total_count = 2
  /\ background_tasks["job-2"].pc = "sleeping"
  /\ processing_jobs["job-2"].processed_count = 1
  /\ processing_jobs["job-2"].total_count = LongFileRows

\* the most recent entries of a buffer, at most limit of them, in call order
Kept(all, limit) ==
  IF Len(all) <= limit THEN all
  ELSE SubSeq(all, Len(all) - limit + 1, Len(all))

\* the messages of a log buffer
Messages(logs) == [i \in 1..Len(logs) |-> logs[i].message]

\* the messages that the buffer held before the last call, none after clear,
\* followed by the messages of that call if the logger was logging
MessagesLogged ==
  (IF op = "clear" THEN <<>> ELSE Messages(arg.logger.logs))
    \o (IF op = "enable" \/ (op # "disable" /\ arg.logger.enabled)
        THEN arg.added ELSE <<>>)

\* the metrics that the buffer held before the last call, none after clear,
\* followed by the metric of that call
MetricsTracked ==
  IF op = "clear" THEN <<>>
  ELSE IF op = "track_performance" /\ app_logger.performance_metrics # <<>>
       THEN Append(arg.logger.performance_metrics,
                   app_logger.performance_metrics[Len(app_logger.performance_metrics)])
       ELSE arg.logger.performance_metrics

\* C30: after any sequence of log, track_performance, clear, enable and
\* disable calls on an AppLogger built with max_logs >= 0, the log buffer
\* holds at most max_logs entries and the metrics buffer at most 500, the
\* entries kept are the most recent ones in call order, and log adds nothing
\* while the logger is disabled.
C30_BuffersStayWithinLimits ==
  op # "init" =>
    /\ Len(app_logger.logs) <= app_logger.max_logs
    /\ Len(app_logger.performance_metrics) <= 500
    /\ Messages(app_logger.logs) = Kept(MessagesLogged, app_logger.max_logs)
    /\ app_logger.performance_metrics = Kept(MetricsTracked, 500)
    /\ (op = "log" /\ ~arg.logger.enabled) => app_logger.logs = arg.logger.logs

\* the buffers of a logger built with a positive max_logs keep to their limits
C30_PositiveLimitHolds ==
  app_logger.max_logs > 0 => C30_BuffersStayWithinLimits

\* a log buffer cut to its last max_logs entries, a full metrics buffer
C30_WitnessLogsCut ==
  /\ op = "log"
  /\ arg.logger.enabled
  /\ app_logger.max_logs > 0
  /\ Len(arg.logger.logs) = app_logger.max_logs

C30_WitnessMetricsCut ==
  /\ op = "track_performance"
  /\ Len(arg.logger.performance_metrics) = 500

====
